---- MODULE Spec2Model ----
(***************************************************************************)
(* A model of cli/lsp/registries.rs: the module-registry manager           *)
(* (ModuleRegistry: enable, disable, check_origin, fetch_config), the      *)
(* configuration validator (validate_config), the template substitutor     *)
(* (replace_variable, get_endpoint, get_endpoint_with_match) and the       *)
(* completion engine (get_completions).                                    *)
(*                                                                         *)
(* Strings are sequences of one-character strings, so that parsing,        *)
(* substring replacement and percent-encoding are computed, not assumed.   *)
(***************************************************************************)
EXTENDS Integers, Sequences, FiniteSets, TLC

(***************************************************************************)
(* String helpers (Rust str methods used by the source).                   *)
(***************************************************************************)
starts_with(s, p) ==
  /\ Len(p) <= Len(s)
  /\ SubSeq(s, 1, Len(p)) = p

ends_with(s, p) ==
  /\ Len(p) <= Len(s)
  /\ SubSeq(s, Len(s) - Len(p) + 1, Len(s)) = p

\* s with its first n characters dropped
Drop(s, n) == SubSeq(s, n + 1, Len(s))

\* s cut to its first n characters
Take(s, n) == SubSeq(s, 1, n)

\* true iff p occurs in s at (1-based) position i
OccursAt(s, p, i) ==
  /\ i >= 1
  /\ i + Len(p) - 1 <= Len(s)
  /\ SubSeq(s, i, i + Len(p) - 1) = p

\* str::replace: every non-overlapping occurrence of pat, left to right
RECURSIVE str_replace(_, _, _)
str_replace(s, pat, to) ==
  IF Len(s) = 0 \/ Len(pat) = 0 THEN s
  ELSE IF OccursAt(s, pat, 1)
       THEN to \o str_replace(Drop(s, Len(pat)), pat, to)
       ELSE <<Head(s)>> \o str_replace(Tail(s), pat, to)

\* index of the first position >= i of s whose character is in cs, or Len(s)+1
RECURSIVE FindFrom(_, _, _)
FindFrom(s, cs, i) ==
  IF i > Len(s) THEN Len(s) + 1
  ELSE IF s[i] \in cs THEN i
  ELSE FindFrom(s, cs, i + 1)

\* index of the first position >= i of s whose character is not in cs, or Len(s)+1
RECURSIVE SkipFrom(_, _, _)
SkipFrom(s, cs, i) ==
  IF i > Len(s) THEN Len(s) + 1
  ELSE IF s[i] \notin cs THEN i
  ELSE SkipFrom(s, cs, i + 1)

\* the elements of a sequence, as a set
Range(s) == {s[i] : i \in 1..Len(s)}

\* Iterator::position: 1-based index of the first element equal to x, 0 if none
RECURSIVE position(_, _)
position(s, x) ==
  IF Len(s) = 0 THEN 0
  ELSE IF Head(s) = x THEN 1
  ELSE LET r == position(Tail(s), x) IN IF r = 0 THEN 0 ELSE r + 1

Letters == {"a", "b", "c", "h", "m", "p", "s", "t", "v", "x"}
\* the regex class \w
WordChars == Letters \cup {"0", "4", "8", "_"}

None == [some |-> FALSE, v |-> <<>>]
Some(x) == [some |-> TRUE, v |-> x]

(***************************************************************************)
(* The url crate, as far as the source uses it: Url::parse, Url::origin,   *)
(* Origin::ascii_serialization, Url::join, Url::as_str and                 *)
(* &url[Position::BeforePath..].                                           *)
(***************************************************************************)
SpecialSchemes == {<<"h", "t", "t", "p">>, <<"h", "t", "t", "p", "s">>}

\* U+00E9, the one scalar value of the inputs that takes two bytes in UTF-8
\* (C3 A9)
TwoByteChar == "é"

UrlErr(e) == [ok |-> FALSE, err |-> e, scheme |-> <<>>, userinfo |-> <<>>, host |-> <<>>, path |-> <<>>, special |-> FALSE]

\* the authority with a default or empty port removed
NormHost(scheme, h) ==
  LET port == IF scheme = <<"h", "t", "t", "p">> THEN <<":", "8", "0">>
              ELSE <<":", "4", "4", "3">>
  IN IF ends_with(h, port) THEN Take(h, Len(h) - Len(port))
     ELSE IF ends_with(h, <<":">>) THEN Take(h, Len(h) - 1)
     ELSE h

Url_parse(s) ==
  LET colon == FindFrom(s, {":"}, 1)
      scheme == Take(s, colon - 1)
  IN IF colon > Len(s) \/ scheme = <<>> \/ ~(Range(scheme) \subseteq Letters)
     THEN UrlErr("RelativeUrlWithoutBase")
     ELSE IF scheme \in SpecialSchemes
     THEN LET a == SkipFrom(s, {"/"}, colon + 1)
              e == FindFrom(s, {"/", "?", "#"}, a)
              authority == SubSeq(s, a, e - 1)
              \* the credentials end at the last "@" of the authority
              at == CHOOSE k \in 0..Len(authority) :
                      /\ k = 0 \/ authority[k] = "@"
                      /\ \A j \in (k + 1)..Len(authority) : authority[j] # "@"
              host == NormHost(scheme, Drop(authority, at))
              rest == Drop(s, e - 1)
          IN IF host = <<>> THEN UrlErr("EmptyHost")
             ELSE [ok |-> TRUE, err |-> "", scheme |-> scheme,
                   userinfo |-> IF at <= 1 THEN <<>>
                                \* percent-encoded in the serialisation
                                ELSE str_replace(Take(authority, at), <<TwoByteChar>>,
                                                 <<"%", "C", "3", "%", "A", "9">>),
                   host |-> host,
                   path |-> IF starts_with(rest, <<"/">>) THEN rest ELSE <<"/">> \o rest,
                   special |-> TRUE]
     ELSE [ok |-> TRUE, err |-> "", scheme |-> scheme, userinfo |-> <<>>, host |-> <<>>,
           path |-> Drop(s, colon), special |-> FALSE]

\* Rust: fn base_url(url: &Url) -> String: url.origin().ascii_serialization(),
\* a tuple origin for http(s), "null" otherwise
base_url(url) ==
  IF url.special THEN url.scheme \o <<":", "/", "/">> \o url.host
  ELSE <<"n", "u", "l", "l">>

Url_as_str(url) ==
  IF url.special
  THEN url.scheme \o <<":", "/", "/">> \o url.userinfo \o url.host \o url.path
  ELSE url.scheme \o <<":">> \o url.path

\* &specifier[Position::BeforePath..]: the path and everything after it
BeforePath(url) == url.path

\* Url::join: only the reference shapes the source produces
Url_join(base, rel) ==
  IF ~base.special /\ ~starts_with(base.path, <<"/">>)
  THEN UrlErr("RelativeUrlCannotBeABaseUrl")
  ELSE IF starts_with(rel, <<"/", "/">>) /\ base.special
  THEN Url_parse(base.scheme \o <<":">> \o rel)
  ELSE IF starts_with(rel, <<"/">>)
  THEN [base EXCEPT !.path = rel]
  ELSE IF rel = <<>> THEN base
  ELSE LET lastSlash == CHOOSE i \in 1..Len(base.path) :
                          /\ base.path[i] = "/"
                          /\ \A j \in (i + 1)..Len(base.path) : base.path[j] # "/"
       IN [base EXCEPT !.path = Take(base.path, lastSlash) \o rel]

\* Rust: const CONFIG_PATH = "/.well-known/deno-import-intellisense.json"
CONFIG_PATH ==
  <<"/", ".", "w", "e", "l", "l", "-", "k", "n", "o", "w", "n", "/", "d", "e",
    "n", "o", "-", "i", "m", "p", "o", "r", "t", "-", "i", "n", "t", "e", "l",
    "l", "i", "s", "e", "n", "s", "e", ".", "j", "s", "o", "n">>

(***************************************************************************)
(* path_to_regex: the schema lexer and parser (parse), for schemas without *)
(* backslash escapes and without nested groups in a pattern.               *)
(***************************************************************************)
Modifiers == {"*", "+", "?"}

\* the default pattern of a parameter whose delimiter set is "/#?"
DefaultPattern == <<"[", "^", "/", "#", "?", "]", "+", "?">>

\* the characters that become a parameter's prefix (path-to-regex "prefixes")
PrefixChars == {".", "/"}

LexTok(type, value) == [type |-> type, value |-> value]

\* the lexer: a sequence of {type, value}, or <<"error">> at its end
RECURSIVE lexer(_, _)
lexer(str, i) ==
  IF i > Len(str) THEN <<LexTok("END", <<>>)>>
  ELSE LET c == str[i] IN
    IF c \in Modifiers THEN <<LexTok("MODIFIER", <<c>>)>> \o lexer(str, i + 1)
    ELSE IF c = "{" THEN <<LexTok("OPEN", <<c>>)>> \o lexer(str, i + 1)
    ELSE IF c = "}" THEN <<LexTok("CLOSE", <<c>>)>> \o lexer(str, i + 1)
    ELSE IF c = ":" THEN
      LET j == SkipFrom(str, WordChars, i + 1) IN
        IF j = i + 1 THEN <<LexTok("ERROR", <<>>)>>
        ELSE <<LexTok("NAME", SubSeq(str, i + 1, j - 1))>> \o lexer(str, j)
    ELSE IF c = "(" THEN
      LET j == FindFrom(str, {")", "("}, i + 1) IN
        IF j > Len(str) \/ str[j] = "(" \/ j = i + 1 \/ str[i + 1] = "?"
        THEN <<LexTok("ERROR", <<>>)>>
        ELSE <<LexTok("PATTERN", SubSeq(str, i + 1, j - 1))>> \o lexer(str, j + 1)
    ELSE <<LexTok("CHAR", <<c>>)>> \o lexer(str, i + 1)

StrName(s) == [str |-> TRUE, s |-> s, n |-> 0]
NumName(n) == [str |-> FALSE, s |-> <<>>, n |-> n]

\* Token::String(text)
TokString(text) ==
  [kind |-> "String", text |-> text, name |-> StrName(<<>>), prefix |-> None,
   suffix |-> None, pattern |-> <<>>, modifier |-> None]

\* Token::Key(Key { name, prefix, suffix, pattern, modifier })
TokKey(name, prefix, suffix, pattern, modifier) ==
  [kind |-> "Key", text |-> <<>>, name |-> name,
   prefix |-> IF prefix = <<>> THEN None ELSE Some(prefix),
   suffix |-> IF suffix = <<>> THEN None ELSE Some(suffix),
   pattern |-> pattern, modifier |-> modifier]

ParseErr == [ok |-> FALSE, tokens |-> <<>>]

\* try_consume(type): the value of toks[i] if it has the type
Has(toks, i, type) == i <= Len(toks) /\ toks[i].type = type

\* consume_text: the CHAR run starting at toks[i]; the index after it
RECURSIVE TextEnd(_, _)
TextEnd(toks, i) == IF Has(toks, i, "CHAR") THEN TextEnd(toks, i + 1) ELSE i

RECURSIVE TextOf(_, _, _)
TextOf(toks, i, j) == IF i >= j THEN <<>> ELSE toks[i].value \o TextOf(toks, i + 1, j)

Flush(result, path) == IF path = <<>> THEN result ELSE Append(result, TokString(path))

\* the parser loop of parse(): i is the lexer index, key the unnamed-key
\* counter, path the pending literal text, result the tokens so far
RECURSIVE ParseLoop(_, _, _, _, _)
ParseLoop(toks, i, key, path, result) ==
  IF Has(toks, i, "ERROR") THEN ParseErr
  ELSE IF Has(toks, i, "END") THEN [ok |-> TRUE, tokens |-> Flush(result, path)]
  ELSE
    LET hasChar == Has(toks, i, "CHAR")
        i1 == IF hasChar THEN i + 1 ELSE i
        hasName == Has(toks, i1, "NAME")
        i2 == IF hasName THEN i1 + 1 ELSE i1
        hasPattern == Has(toks, i2, "PATTERN")
        i3 == IF hasPattern THEN i2 + 1 ELSE i2
    IN
    IF hasName \/ hasPattern THEN
      LET char == IF hasChar THEN toks[i].value ELSE <<>>
          isPrefix == char # <<>> /\ char[1] \in PrefixChars
          prefix == IF isPrefix THEN char ELSE <<>>
          path1 == IF isPrefix THEN path ELSE path \o char
          name == IF hasName THEN StrName(toks[i1].value) ELSE NumName(key)
          key1 == IF hasName THEN key ELSE key + 1
          pattern == IF hasPattern THEN toks[i2].value ELSE DefaultPattern
          hasMod == Has(toks, i3, "MODIFIER")
          modifier == IF hasMod THEN Some(toks[i3].value) ELSE None
      IN ParseLoop(toks, IF hasMod THEN i3 + 1 ELSE i3, key1, <<>>,
                   Append(Flush(result, path1),
                          TokKey(name, prefix, <<>>, pattern, modifier)))
    ELSE IF hasChar THEN ParseLoop(toks, i + 1, key, path \o toks[i].value, result)
    ELSE IF Has(toks, i, "OPEN") THEN
      LET p1 == TextEnd(toks, i + 1)
          prefix == TextOf(toks, i + 1, p1)
          gName == Has(toks, p1, "NAME")
          p2 == IF gName THEN p1 + 1 ELSE p1
          gPattern == Has(toks, p2, "PATTERN")
          p3 == IF gPattern THEN p2 + 1 ELSE p2
          p4 == TextEnd(toks, p3)
          suffix == TextOf(toks, p3, p4)
          name == IF gName THEN StrName(toks[p1].value)
                  ELSE IF gPattern THEN NumName(key) ELSE StrName(<<>>)
          key1 == IF ~gName /\ gPattern THEN key + 1 ELSE key
          pattern == IF gName /\ ~gPattern THEN DefaultPattern
                     ELSE IF gPattern THEN toks[p2].value ELSE <<>>
          hasMod == Has(toks, p4 + 1, "MODIFIER")
          modifier == IF hasMod THEN Some(toks[p4 + 1].value) ELSE None
      IN IF ~Has(toks, p4, "CLOSE") THEN ParseErr
         ELSE ParseLoop(toks, IF hasMod THEN p4 + 2 ELSE p4 + 1, key1, <<>>,
                        Append(Flush(result, path),
                               TokKey(name, prefix, suffix, pattern, modifier)))
    ELSE ParseErr

\* Rust: path_to_regex::parse(schema, None) -> Result<Vec<Token>, AnyError>
parse(schema) == ParseLoop(lexer(schema, 1), 1, 0, <<>>, <<>>)

\* the Key tokens of a token list, in order
RECURSIVE KeysOf(_)
KeysOf(tokens) ==
  IF tokens = <<>> THEN <<>>
  ELSE (IF Head(tokens).kind = "Key" THEN <<Head(tokens)>> ELSE <<>>) \o KeysOf(Tail(tokens))

(***************************************************************************)
(* path_to_regex: the regular expression of a token list (tokens_to_regex), *)
(* Matcher and Compiler.  The regular expression is kept as its source     *)
(* text, each character marked as escaped literal text or as syntax.       *)
(***************************************************************************)
Delimiters == {"/", "#", "?"}

Syn(s) == [i \in 1..Len(s) |-> [c |-> s[i], lit |-> FALSE]]

\* escape_string: the characters of a literal carry no syntax
Lit(s) == [i \in 1..Len(s) |-> [c |-> s[i], lit |-> TRUE]]

OptText(o) == IF o.some THEN o.v ELSE <<>>

IsRepeated(key) == key.modifier.some /\ key.modifier.v \in {<<"*">>, <<"+">>}

IsOptional(key) == key.modifier.some /\ key.modifier.v \in {<<"*">>, <<"?">>}

\* tokens_to_regex, one token
token_source(tk) ==
  IF tk.kind = "String" THEN Lit(tk.text)
  ELSE LET pre == Lit(OptText(tk.prefix))
           suf == Lit(OptText(tk.suffix))
           pat == Syn(tk.pattern)
       IN IF tk.pattern = <<>>
          THEN Syn(<<"(", "?", ":">>) \o pre \o suf \o Syn(<<")">>) \o Syn(OptText(tk.modifier))
          ELSE IF IsRepeated(tk)
          THEN Syn(<<"(", "?", ":">>) \o pre \o Syn(<<"(", "(", "?", ":">>) \o pat
               \o Syn(<<")", "(", "?", ":">>) \o suf \o pre \o Syn(<<"(", "?", ":">>) \o pat
               \o Syn(<<")", ")", "*", ")">>) \o suf \o Syn(<<")">>)
               \o (IF tk.modifier.v = <<"*">> THEN Syn(<<"?">>) ELSE <<>>)
          ELSE Syn(<<"(", "?", ":">>) \o pre \o Syn(<<"(">>) \o pat \o Syn(<<")">>) \o suf
               \o Syn(<<")">>) \o Syn(OptText(tk.modifier))

\* the end of tokens_to_regex with the default options (anchored at both
\* ends): an optional trailing delimiter, then the end of the text
regex_end == Syn(<<"[", "/", "#", "?", "]", "?", "$">>)

\* the state of reading a regular expression: the open groups, the open
\* character classes, and whether a group was closed that was never opened
Reading(depth, cls, ok) == [depth |-> depth, cls |-> cls, ok |-> ok]

\* reading one character of the source
read_char(st, x) ==
  IF x.lit THEN st
  ELSE IF st.cls > 0
  THEN (IF x.c = "[" THEN Reading(st.depth, st.cls + 1, st.ok)
        ELSE IF x.c = "]" THEN Reading(st.depth, st.cls - 1, st.ok)
        ELSE st)
  ELSE IF x.c = "[" THEN Reading(st.depth, 1, st.ok)
  ELSE IF x.c = "(" THEN Reading(st.depth + 1, 0, st.ok)
  ELSE IF x.c = ")" THEN Reading(IF st.depth > 0 THEN st.depth - 1 ELSE 0, 0,
                                 st.ok /\ st.depth > 0)
  ELSE st

RECURSIVE read_source(_, _, _)
read_source(src, i, st) ==
  IF i > Len(src) THEN st
  ELSE LET next == read_char(st, src[i])
       IN IF next.depth >= 0 THEN read_source(src, i + 1, next) ELSE next

RECURSIVE read_tokens(_, _, _)
read_tokens(tokens, k, st) ==
  IF k > Len(tokens) THEN st
  ELSE read_tokens(tokens, k + 1, read_source(token_source(tokens[k]), 1, st))

\* Rust: Matcher::new(tokens, None) is Ok: Regex::new accepts the source of
\* the token list, its groups are balanced and every character class is closed
Matcher_new(tokens) ==
  LET st == read_source(regex_end, 1, read_tokens(tokens, 1, Reading(0, 0, TRUE)))
  IN st.ok /\ st.depth = 0 /\ st.cls = 0

\* StringOrVec::String(s) and StringOrVec::Vec(v)
SovString(s) == [vec |-> FALSE, s |-> s, v |-> <<>>]
SovVec(v) == [vec |-> TRUE, s |-> <<>>, v |-> v]

\* str::split: the pieces of s from start on between the occurrences of a
\* non-empty pat, i the position looked at
RECURSIVE split(_, _, _, _)
split(s, pat, start, i) ==
  IF pat = <<>> \/ i + Len(pat) - 1 > Len(s) THEN <<SubSeq(s, start, Len(s))>>
  ELSE IF OccursAt(s, pat, i)
  THEN <<SubSeq(s, start, i - 1)>> \o split(s, pat, i + Len(pat), i + Len(pat))
  ELSE split(s, pat, start, i + 1)

\* StringOrVec::from_str(s, key): a repeated parameter's text is split at the
\* key's prefix and suffix
sov_from_str(s, key) ==
  IF IsRepeated(key) THEN SovVec(split(s, OptText(key.prefix) \o OptText(key.suffix), 1, 1))
  ELSE SovString(s)

\* one entry of MatchResult.params
Param(key, value) == [key |-> key, value |-> value]

\* the patterns whose language this model computes: the default pattern, the
\* pattern .* and a pattern of word characters only (which matches itself)

Interpreted(tokens) ==
  \A k \in 1..Len(tokens) :
    tokens[k].kind = "Key" /\ tokens[k].pattern # <<>> =>
      \/ tokens[k].pattern \in {DefaultPattern, <<".", "*">>}
      \/ Range(tokens[k].pattern) \subseteq WordChars

\* the lengths of the texts at position pos of path that a pattern matches, in
\* the order in which the regular expression tries them (the default pattern
\* is lazy, .* is greedy)
pattern_lengths(pattern, path, pos) ==
  IF pattern = DefaultPattern
  THEN [n \in 1..(FindFrom(path, Delimiters, pos) - pos) |-> n]
  ELSE IF pattern = <<".", "*">>
  THEN [n \in 1..(Len(path) - pos + 2) |-> Len(path) - pos + 1 - (n - 1)]
  ELSE IF OccursAt(path, pattern, pos) THEN <<Len(pattern)>>
  ELSE <<>>

NoMatch == [ok |-> FALSE, end |-> 0, params |-> <<>>]

\* the regular expression of tokens[k..] followed by regex_end, tried at
\* position pos of path: the first way to match in the order of a
\* backtracking matcher; params are the captures of the keys so far
RECURSIVE match_tokens(_, _, _, _, _)
RECURSIVE match_lengths(_, _, _, _, _, _, _, _)
match_tokens(tokens, k, path, pos, params) ==
  IF k > Len(tokens)
  THEN (IF pos = Len(path) /\ path[pos] \in Delimiters
        THEN [ok |-> TRUE, end |-> pos + 1, params |-> params]
        ELSE IF pos = Len(path) + 1
        THEN [ok |-> TRUE, end |-> pos, params |-> params]
        ELSE NoMatch)
  ELSE LET tk == tokens[k] IN
    IF tk.kind = "String"
    THEN (IF OccursAt(path, tk.text, pos) \/ tk.text = <<>>
          THEN match_tokens(tokens, k + 1, path, pos + Len(tk.text), params)
          ELSE NoMatch)
    ELSE LET pre == OptText(tk.prefix)
             suf == OptText(tk.suffix)
             start == pos + Len(pre)
             present ==
               IF ~(pre = <<>> \/ OccursAt(path, pre, pos)) THEN NoMatch
               ELSE IF tk.pattern = <<>>
               THEN (IF suf = <<>> \/ OccursAt(path, suf, start)
                     THEN match_tokens(tokens, k + 1, path, start + Len(suf), params)
                     ELSE NoMatch)
               ELSE match_lengths(tokens, k, path, start, start,
                                  pattern_lengths(tk.pattern, path, start), 1, params)
             absent == match_tokens(tokens, k + 1, path, pos, params)
         IN IF IsOptional(tk) THEN (IF present.ok THEN present ELSE absent)
            ELSE present

\* the key tokens[k], its capture starting at `start`, a segment of it
\* starting at pos: the candidate lengths of the segment from the j-th on
match_lengths(tokens, k, path, start, pos, lens, j, params) ==
  IF j > Len(lens) THEN NoMatch
  ELSE LET tk == tokens[k]
           pre == OptText(tk.prefix)
           suf == OptText(tk.suffix)
           sep == suf \o pre
           e == pos + lens[j]
           more == IF IsRepeated(tk) /\ sep # <<>> /\ OccursAt(path, sep, e)
                   THEN match_lengths(tokens, k, path, start, e + Len(sep),
                                      pattern_lengths(tk.pattern, path, e + Len(sep)),
                                      1, params)
                   ELSE NoMatch
           done == IF suf = <<>> \/ OccursAt(path, suf, e)
                   THEN match_tokens(tokens, k + 1, path, e + Len(suf),
                          Append(params, Param(tk.name,
                                   sov_from_str(SubSeq(path, start, e - 1), tk))))
                   ELSE NoMatch
       IN IF more.ok THEN more
          ELSE IF done.ok THEN done
          ELSE match_lengths(tokens, k, path, start, pos, lens, j + 1, params)

\* MatchResult { path, index, params }
MatchResult(path, params) == [path |-> path, index |-> 0, params |-> params]

\* a schema whose first pattern opens a character class that its second
\* pattern closes: the regular expression of the whole schema is well formed,
\* the one of its first token alone is not
ClassSpanningSchema == <<"/", "(", "[", ")", "/", "(", "]", ")">>

\* the regular expression of ClassSpanningSchema reads as "/", one character
\* of the class that holds the text between the two patterns, an optional
\* delimiter; its one group captures the character
class_spanning_matches(path) ==
  IF /\ Len(path) \in {2, 3}
     /\ path[1] = "/"
     /\ path[2] \in {")", "(", "?", ":", "/"}
     /\ (Len(path) = 3 => path[3] \in Delimiters)
  THEN Some(MatchResult(path, <<Param(NumName(0), SovString(<<path[2]>>))>>))
  ELSE None

\* Rust: Matcher::matches(path) -> Option<MatchResult>
matches(tokens, path) ==
  LET found(m) == IF m.ok THEN Some(MatchResult(SubSeq(path, 1, m.end - 1), m.params))
                  ELSE None
  IN IF Interpreted(tokens) THEN found(match_tokens(tokens, 1, path, 1, <<>>))
     ELSE IF tokens = parse(ClassSpanningSchema).tokens THEN class_spanning_matches(path)
     ELSE None

\* MatchResult::get(name)
match_result_get(match_result, name) ==
  LET ps == SelectSeq(match_result.params, LAMBDA p : p.key = StrName(name))
  IN IF ps = <<>> THEN None ELSE Some(ps[1].value)

RECURSIVE JoinSegments(_, _)
JoinSegments(v, sep) ==
  IF v = <<>> THEN <<>>
  ELSE IF Len(v) = 1 THEN v[1]
  ELSE v[1] \o sep \o JoinSegments(Tail(v), sep)

\* StringOrVec::to_string(maybe_key): the segments of a repeated parameter
\* are separated by the suffix then the prefix of the key ("/" without a key)
sov_to_string(value, maybe_key) ==
  LET sep == IF maybe_key.some
             THEN OptText(maybe_key.v.suffix) \o OptText(maybe_key.v.prefix)
             ELSE <<"/">>
  IN IF value.vec THEN JoinSegments(value.v, sep) ELSE value.s

\* a text is in the language of a pattern (the check of Compiler::to_path)
pattern_accepts(pattern, s) ==
  IF pattern = DefaultPattern THEN s # <<>> /\ Range(s) \cap Delimiters = {}
  ELSE IF pattern = <<".", "*">> THEN TRUE
  ELSE pattern # <<>> /\ Range(pattern) \subseteq WordChars /\ s = pattern

RECURSIVE render_segments(_, _)
render_segments(tk, v) ==
  IF v = <<>> THEN <<>>
  ELSE OptText(tk.prefix) \o Head(v) \o OptText(tk.suffix) \o render_segments(tk, Tail(v))

PathErr == [ok |-> FALSE, path |-> <<>>]

\* Rust: Compiler::new(tokens, None).to_path(params) -> Result<String, _>:
\* the literals verbatim, each parameter as prefix + value + suffix; a value
\* that its pattern does not accept, or a required parameter without a value,
\* is an error
RECURSIVE to_path_from(_, _, _, _)
to_path_from(tokens, k, params, path) ==
  IF k > Len(tokens) THEN [ok |-> TRUE, path |-> path]
  ELSE LET tk == tokens[k] IN
    IF tk.kind = "String" THEN to_path_from(tokens, k + 1, params, path \o tk.text)
    ELSE LET ps == SelectSeq(params, LAMBDA p : p.key = tk.name) IN
      IF ps = <<>>
      THEN (IF IsOptional(tk) THEN to_path_from(tokens, k + 1, params, path) ELSE PathErr)
      ELSE IF ps[1].value.vec
      THEN (IF ~IsRepeated(tk) THEN PathErr
            ELSE IF ps[1].value.v = <<>>
            THEN (IF IsOptional(tk) THEN to_path_from(tokens, k + 1, params, path)
                  ELSE PathErr)
            ELSE IF \E i \in 1..Len(ps[1].value.v) :
                      ~pattern_accepts(tk.pattern, ps[1].value.v[i])
            THEN PathErr
            ELSE to_path_from(tokens, k + 1, params,
                              path \o render_segments(tk, ps[1].value.v)))
      ELSE IF ~pattern_accepts(tk.pattern, ps[1].value.s) THEN PathErr
      ELSE to_path_from(tokens, k + 1, params,
                        path \o OptText(tk.prefix) \o ps[1].value.s \o OptText(tk.suffix))

to_path(tokens, params) == to_path_from(tokens, 1, params, <<>>)

\* HashMap::insert on the parameters: the value of the key is replaced, a new
\* key is added
params_insert(params, key, value) ==
  IF \E i \in 1..Len(params) : params[i].key = key
  THEN [i \in 1..Len(params) |->
          IF params[i].key = key THEN Param(key, value) ELSE params[i]]
  ELSE Append(params, Param(key, value))

\* Rust: path_to_regex::string_to_regex(schema, None): the schema is parsed
\* and its tokens compiled; the result carries the keys
string_to_regex(schema) ==
  LET compiled(r) == [ok |-> r.ok /\ Matcher_new(r.tokens), keys |-> KeysOf(r.tokens)]
  IN compiled(parse(schema))

(***************************************************************************)
(* The configuration model and validate_config.                            *)
(***************************************************************************)
\* RegistryConfigurationVariable { key, documentation, url }
Variable(key, documentation, url) ==
  [key |-> key, documentation |-> documentation, url |-> url]

\* RegistryConfiguration { schema, variables }
Registry(schema, variables) == [schema |-> schema, variables |-> variables]

\* RegistryConfigurationJson { version, registries }
ConfigJson(version, registries) == [version |-> version, registries |-> registries]

\* REPLACEMENT_VARIABLE_RE = \$\{\{?(\w+)\}?\} : the match starting at position
\* i of s, as [matched, name, next], next being the index after the match
ReplacementMatchAt(s, i) ==
  LET n0 == IF OccursAt(s, <<"$", "{", "{">>, i) THEN i + 3 ELSE i + 2
      n1 == SkipFrom(s, WordChars, n0)
  IN IF ~OccursAt(s, <<"$", "{">>, i) \/ n1 = n0
     THEN [matched |-> FALSE, name |-> <<>>, next |-> i + 1]
     ELSE IF OccursAt(s, <<"}", "}">>, n1)
     THEN [matched |-> TRUE, name |-> SubSeq(s, n0, n1 - 1), next |-> n1 + 2]
     ELSE IF OccursAt(s, <<"}">>, n1)
     THEN [matched |-> TRUE, name |-> SubSeq(s, n0, n1 - 1), next |-> n1 + 1]
     ELSE [matched |-> FALSE, name |-> <<>>, next |-> i + 1]

RECURSIVE CapturesFrom(_, _)
CapturesFrom(s, i) ==
  IF i > Len(s) THEN <<>>
  ELSE LET m == ReplacementMatchAt(s, i)
       IN (IF m.matched THEN <<m.name>> ELSE <<>>) \o CapturesFrom(s, m.next)

\* Rust: fn parse_replacement_variables(s) -> Vec<String>
parse_replacement_variables(s) == CapturesFrom(s, 1)

\* key_names: the string names of the keys, in schema order (filter_map)
RECURSIVE key_names_of(_)
key_names_of(keys) ==
  IF keys = <<>> THEN <<>>
  ELSE (IF Head(keys).name.str THEN <<Head(keys).name.s>> ELSE <<>>)
       \o key_names_of(Tail(keys))

\* a variant of the reference check without the version-1 self-reference test
replacement_variables_ok_no_self_check(version, variable, limited_keys) ==
  LET rv == parse_replacement_variables(variable.url) IN
  \A i \in 1..Len(rv) :
    ~(position(limited_keys, rv[i]) = 0 /\ variable.key # rv[i])

\* lines 299-309: the replacement variables of one variable's url are allowed
replacement_variables_ok(version, variable, limited_keys) ==
  LET rv == parse_replacement_variables(variable.url) IN
  \A i \in 1..Len(rv) :
    /\ ~(variable.key = rv[i] /\ version = 1)
    /\ ~(position(limited_keys, rv[i]) = 0 /\ variable.key # rv[i])

\* lines 267-311: one registry of the configuration: the schema compiles
\* (line 268), every key name has a variable declaration (lines 282-291),
\* every variable's key is a key name and its replacement variables are
\* allowed (lines 293-310)
registry_ok(version, registry) ==
  LET declared(key_names) ==
        /\ \A i \in 1..Len(key_names) :
             \E j \in 1..Len(registry.variables) : registry.variables[j].key = key_names[i]
        /\ \A j \in 1..Len(registry.variables) :
             LET limited(key_index) ==
                   /\ key_index # 0
                   /\ replacement_variables_ok(version, registry.variables[j],
                                               Take(key_names, key_index - 1))
             IN limited(position(key_names, registry.variables[j].key))
      compiled(r) == r.ok /\ declared(key_names_of(r.keys))
  IN compiled(string_to_regex(registry.schema))

\* Rust: fn validate_config(config) -> Result<(), AnyError>; TRUE iff Ok(())
validate_config(config) ==
  /\ ~(config.version < 1 \/ config.version > 2)
  /\ \A i \in 1..Len(config.registries) : registry_ok(config.version, config.registries[i])

(***************************************************************************)
(* The file fetcher and its HTTP cache, as the manager uses them.          *)
(***************************************************************************)
\* a response body: the empty body, text that is not JSON, JSON of another
\* shape, or the JSON of a RegistryConfigurationJson
NoConfig == ConfigJson(0, <<>>)
EmptyBody == [json |-> "empty", config |-> NoConfig]
TextBody == [json |-> "text", config |-> NoConfig]
ConfigBody(config) == [json |-> "config", config |-> config]

\* serde_json::from_str::<RegistryConfigurationJson>(&file.source)
from_str(source) ==
  IF source.json = "config" THEN [ok |-> TRUE, err |-> "", config |-> source.config]
  ELSE IF source.json = "empty" THEN [ok |-> FALSE, err |-> "EOF while parsing a value", config |-> NoConfig]
  ELSE [ok |-> FALSE, err |-> "DecodeFailed", config |-> NoConfig]

\* the header written with the empty body: cache-control: max-age=604800, immutable
MaxAgeImmutable == "cache-control: max-age=604800, immutable"

\* HttpCache::set(url, headers, body)
http_cache_set(cache, url, headers, body) ==
  [u \in DOMAIN cache \cup {url} |->
     IF u = url THEN [headers |-> headers, body |-> body] ELSE cache[u]]

\* CacheSetting::RespectHeaders: a cached entry is used iff its headers keep it fresh
is_fresh(cache, url) == url \in DOMAIN cache /\ cache[url].headers = MaxAgeImmutable

\* FileFetcher::fetch(specifier): the cached body if fresh, else one network
\* round-trip whose outcome is net; a downloaded body is cached
fetch(cache, specifier, net) ==
  LET url == Url_as_str(specifier) IN
  IF ~specifier.special
  THEN [ok |-> FALSE, source |-> EmptyBody, cache |-> cache, round_trip |-> FALSE]
  ELSE IF is_fresh(cache, url)
  THEN [ok |-> TRUE, source |-> cache[url].body, cache |-> cache, round_trip |-> FALSE]
  ELSE IF net.ok
  THEN [ok |-> TRUE, source |-> net.body,
        cache |-> http_cache_set(cache, url, "none", net.body), round_trip |-> TRUE]
  ELSE [ok |-> FALSE, source |-> EmptyBody, cache |-> cache, round_trip |-> TRUE]

(***************************************************************************)
(* The registry manager: ModuleRegistry { origins, file_fetcher }.         *)
(***************************************************************************)
\* the outcome of one manager call
Outcome(result, origins, cache, fetched, fetch_ok, round_trip, source) ==
  [result |-> result, origins |-> origins, cache |-> cache, fetched |-> fetched,
   fetch_ok |-> fetch_ok, round_trip |-> round_trip, source |-> source]

\* an outcome that touched neither the map nor the fetcher
Untouched(result, origins, cache) ==
  Outcome(result, origins, cache, FALSE, FALSE, FALSE, EmptyBody)

\* a variant of fetch_config that does not cache an empty body on failure
fetch_config_no_negative_cache(cache, specifier, net, set_ok) ==
  LET f == fetch(cache, specifier, net)
      d == from_str(f.source)
  IN IF ~f.ok THEN [ok |-> FALSE, err |-> "FetchFailed", configs |-> <<>>, cache |-> f.cache, f |-> f]
     ELSE IF ~d.ok THEN [ok |-> FALSE, err |-> d.err, configs |-> <<>>, cache |-> f.cache, f |-> f]
     ELSE IF ~validate_config(d.config)
     THEN [ok |-> FALSE, err |-> "InvalidConfig", configs |-> <<>>, cache |-> f.cache, f |-> f]
     ELSE [ok |-> TRUE, err |-> "", configs |-> d.config.registries, cache |-> f.cache, f |-> f]

\* a variant of fetch_config that returns the decoded registries without
\* validating them
fetch_config_unvalidated(cache, specifier, net, set_ok) ==
  LET f == fetch(cache, specifier, net)
      d == from_str(f.source)
  IN IF ~f.ok
     THEN IF set_ok
          THEN [ok |-> FALSE, err |-> "FetchFailed", configs |-> <<>>,
                cache |-> http_cache_set(f.cache, Url_as_str(specifier), MaxAgeImmutable, EmptyBody),
                f |-> f]
          ELSE [ok |-> FALSE, err |-> "CacheSetFailed", configs |-> <<>>, cache |-> f.cache, f |-> f]
     ELSE IF ~d.ok THEN [ok |-> FALSE, err |-> d.err, configs |-> <<>>, cache |-> f.cache, f |-> f]
     ELSE [ok |-> TRUE, err |-> "", configs |-> d.config.registries, cache |-> f.cache, f |-> f]

\* Rust: async fn fetch_config(&self, specifier) -> Result<Vec<RegistryConfiguration>>
\* net is the outcome of the network round-trip (if one is made), set_ok that
\* of http_cache.set (if it is called)
fetch_config(cache, specifier, net, set_ok) ==
  LET f == fetch(cache, specifier, net)
      d == from_str(f.source)
  IN IF ~f.ok
     THEN IF set_ok
          THEN [ok |-> FALSE, err |-> "FetchFailed", configs |-> <<>>,
                cache |-> http_cache_set(f.cache, Url_as_str(specifier), MaxAgeImmutable, EmptyBody),
                f |-> f]
          ELSE [ok |-> FALSE, err |-> "CacheSetFailed", configs |-> <<>>, cache |-> f.cache, f |-> f]
     ELSE IF ~d.ok THEN [ok |-> FALSE, err |-> d.err, configs |-> <<>>, cache |-> f.cache, f |-> f]
     ELSE IF ~validate_config(d.config)
     THEN [ok |-> FALSE, err |-> "InvalidConfig", configs |-> <<>>, cache |-> f.cache, f |-> f]
     ELSE [ok |-> TRUE, err |-> "", configs |-> d.config.registries, cache |-> f.cache, f |-> f]

\* the outcome of a call that ran fetch_config with result c
Fetched(c, origins) ==
  Outcome(IF c.ok THEN "Ok" ELSE c.err, origins, c.cache, TRUE, c.f.ok, c.f.round_trip, c.f.source)

\* a variant of disable that removes the origin string as given
disable_unserialised(origins, origin) ==
  LET url == Url_parse(origin) IN
  IF ~url.ok THEN Untouched("BadOrigin", origins, <<>>)
  ELSE Untouched("Ok", [o \in DOMAIN origins \ {origin} |-> origins[o]], <<>>)

\* Rust: pub async fn disable(&mut self, origin: &str) -> Result<(), AnyError>
disable(origins, origin) ==
  LET url == Url_parse(origin) IN
  IF ~url.ok THEN Untouched("BadOrigin", origins, <<>>)
  ELSE Untouched("Ok", [o \in DOMAIN origins \ {base_url(url)} |-> origins[o]], <<>>)

\* a variant of check_origin that records the configuration it fetched
check_origin_storing(origins, cache, origin, net, set_ok) ==
  LET origin_url == Url_parse(origin)
      specifier == Url_join(origin_url, CONFIG_PATH)
      c == fetch_config(cache, specifier, net, set_ok)
  IN IF ~origin_url.ok THEN Untouched("BadOrigin", origins, cache)
     ELSE IF ~specifier.ok THEN Untouched("BadOrigin", origins, cache)
     ELSE Fetched(c, IF c.ok
                     THEN [o \in DOMAIN origins \cup {base_url(origin_url)} |->
                             IF o = base_url(origin_url) THEN c.configs ELSE origins[o]]
                     ELSE origins)

\* Rust: pub(crate) async fn check_origin(&self, origin: &str) -> Result<(), AnyError>
check_origin(origins, cache, origin, net, set_ok) ==
  LET origin_url == Url_parse(origin)
      specifier == Url_join(origin_url, CONFIG_PATH)
  IN IF ~origin_url.ok THEN Untouched("BadOrigin", origins, cache)
     ELSE IF ~specifier.ok THEN Untouched("BadOrigin", origins, cache)
     ELSE Fetched(fetch_config(cache, specifier, net, set_ok), origins)

\* a variant of enable without the contains_key test
enable_always_fetch(origins, cache, origin, net, set_ok) ==
  LET origin_url == Url_parse(origin)
      o1 == base_url(origin_url)
      specifier == Url_join(origin_url, CONFIG_PATH)
      c == fetch_config(cache, specifier, net, set_ok)
  IN IF ~origin_url.ok THEN Untouched("BadOrigin", origins, cache)
     ELSE IF ~specifier.ok THEN Untouched("BadOrigin", origins, cache)
     ELSE Fetched(c, IF c.ok
                     THEN [o \in DOMAIN origins \cup {o1} |->
                             IF o = o1 THEN c.configs ELSE origins[o]]
                     ELSE origins)

\* a variant of enable that inserts the origin before the fetch completes
enable_insert_first(origins, cache, origin, net, set_ok) ==
  LET origin_url == Url_parse(origin)
      o1 == base_url(origin_url)
      specifier == Url_join(origin_url, CONFIG_PATH)
      c == fetch_config(cache, specifier, net, set_ok)
  IN IF ~origin_url.ok THEN Untouched("BadOrigin", origins, cache)
     ELSE IF o1 \in DOMAIN origins THEN Untouched("Ok", origins, cache)
     ELSE IF ~specifier.ok THEN Untouched("BadOrigin", origins, cache)
     ELSE Fetched(c, [o \in DOMAIN origins \cup {o1} |->
                        IF o = o1 THEN c.configs ELSE origins[o]])

\* Rust: pub async fn enable(&mut self, origin: &str) -> Result<(), AnyError>
enable(origins, cache, origin, net, set_ok) ==
  LET origin_url == Url_parse(origin)
      o1 == base_url(origin_url)
      specifier == Url_join(origin_url, CONFIG_PATH)
      inserted(c) == Fetched(c, IF c.ok
                                THEN [o \in DOMAIN origins \cup {o1} |->
                                        IF o = o1 THEN c.configs ELSE origins[o]]
                                ELSE origins)
  IN IF ~origin_url.ok THEN Untouched("BadOrigin", origins, cache)
     ELSE IF o1 \in DOMAIN origins THEN Untouched("Ok", origins, cache)
     ELSE IF ~specifier.ok THEN Untouched("BadOrigin", origins, cache)
     ELSE inserted(fetch_config(cache, specifier, net, set_ok))

(***************************************************************************)
(* The manager as a state machine: calls of enable, disable and            *)
(* check_origin in any order, against a server that may answer each        *)
(* round-trip with any body or fail, and a cache that may drop entries.    *)
(***************************************************************************)
VARIABLES
  origins,      \* ModuleRegistry.origins: origin -> Vec<RegistryConfiguration>
  http_cache,   \* file_fetcher.http_cache: url -> {headers, body}
  last,         \* the last call: its operation, argument and outcome
  tick,         \* flips at every call
  enabled,      \* history: origins enabled and not disabled since
  request,      \* the arguments of a call of one of the synchronous functions
  response      \* its result, once the call has returned

mgr_vars == <<origins, http_cache, last, tick, enabled>>

\* no call of a synchronous function is being followed
Pending == [done |-> FALSE]

HTTP == <<"h", "t", "t", "p", ":", "/", "/">>

\* the origin strings a caller passes
OriginInputs ==
  { HTTP \o <<"a">>,
    HTTP \o <<"a", ":", "8", "0", "/", "x">>,
    <<"h", "t", "t", "p", "s", ":", "/", "/", "b">>,
    <<"a">>,
    <<"x", ":", "a">> }

\* the bodies the server may answer with: a text that is no JSON, and the
\* configurations "/x/:m" (version 1), "/:m/:v" with v's url using ${m} and
\* ${{v}} (version 2), and "/:m" without a variable for m
ServerBodies ==
  { TextBody,
    ConfigBody(ConfigJson(1, <<Registry(<<"/", "x", "/", ":", "m">>,
                                        <<Variable(<<"m">>, None, <<"/", "m">>)>>)>>)),
    ConfigBody(ConfigJson(2, <<Registry(<<"/", ":", "m", "/", ":", "v">>,
                 <<Variable(<<"m">>, None, <<"/", "m">>),
                   Variable(<<"v">>, None,
                            <<"/", "$", "{", "m", "}", "/", "$", "{", "{", "v", "}", "}">>)>>)>>)),
    ConfigBody(ConfigJson(1, <<Registry(<<"/", ":", "m">>, <<>>)>>)) }

\* the outcome of a round-trip: a body, or a failure together with the outcome
\* of the http_cache.set that follows it
NetOutcomes ==
  {[ok |-> FALSE, body |-> EmptyBody, set_ok |-> s] : s \in BOOLEAN}
    \cup {[ok |-> TRUE, body |-> b, set_ok |-> TRUE] : b \in ServerBodies}

EmptyMap == [o \in {} |-> <<>>]

Call(op, origin, r) ==
  [op |-> op, origin |-> origin, result |-> r.result, fetched |-> r.fetched,
   fetch_ok |-> r.fetch_ok, round_trip |-> r.round_trip, source |-> r.source]

NoCall == Call("none", <<>>, Untouched("Ok", EmptyMap, EmptyMap))

Init ==
  /\ origins = EmptyMap
  /\ http_cache = EmptyMap
  /\ last = NoCall
  /\ tick = 0
  /\ enabled = {}
  /\ request = [fn |-> "none"]
  /\ response = Pending

Enable(origin, net, set_ok) ==
  LET returned(r) ==
        /\ origins' = r.origins
        /\ http_cache' = r.cache
        /\ last' = Call("enable", origin, r)
        /\ tick' = 1 - tick
        /\ enabled' = IF r.result = "Ok" THEN enabled \cup {base_url(Url_parse(origin))}
                      ELSE enabled
        /\ UNCHANGED <<request, response>>
  IN returned(enable(origins, http_cache, origin, net, set_ok))

Disable(origin) ==
  LET returned(r) ==
        /\ origins' = r.origins
        /\ UNCHANGED http_cache
        /\ last' = Call("disable", origin, r)
        /\ tick' = 1 - tick
        /\ enabled' = IF r.result = "Ok" THEN enabled \ {base_url(Url_parse(origin))}
                      ELSE enabled
        /\ UNCHANGED <<request, response>>
  IN returned(disable(origins, origin))

CheckOrigin(origin, net, set_ok) ==
  LET returned(r) ==
        /\ origins' = r.origins
        /\ http_cache' = r.cache
        /\ last' = Call("check_origin", origin, r)
        /\ tick' = 1 - tick
        /\ UNCHANGED <<enabled, request, response>>
  IN returned(check_origin(origins, http_cache, origin, net, set_ok))

\* the cache drops an entry (expiry or eviction)
Evict(url) ==
  /\ url \in DOMAIN http_cache
  /\ http_cache' = [u \in DOMAIN http_cache \ {url} |-> http_cache[u]]
  /\ last' = Call("evict", url, Untouched("Ok", EmptyMap, EmptyMap))
  /\ tick' = 1 - tick
  /\ UNCHANGED <<origins, enabled, request, response>>

Next ==
  \/ \E origin \in OriginInputs, net \in NetOutcomes : Enable(origin, net, net.set_ok)
  \/ \E origin \in OriginInputs : Disable(origin)
  \/ \E origin \in OriginInputs, net \in NetOutcomes : CheckOrigin(origin, net, net.set_ok)
  \/ \E url \in DOMAIN http_cache : Evict(url)

vars == <<origins, http_cache, last, tick, enabled, request, response>>

Spec == Init /\ [][Next]_vars

(***************************************************************************)
(* Properties of the manager (checked under Spec).                         *)
(***************************************************************************)
\* the serialised origin of the last call's argument
LastOrigin == base_url(Url_parse(last.origin))

\* the configuration URL of an origin string, as the cache keys it
ConfigUrl(origin) == Url_as_str(Url_join(Url_parse(origin), CONFIG_PATH))

\* the entry fetch_config writes after a failed fetch
NegativeEntry == [headers |-> MaxAgeImmutable, body |-> EmptyBody]

\* C1: the key set of the origin map is exactly the set of serialised origins
\* enabled successfully and not disabled since; after disable(o) returns Ok, o
\* is not a key of the map.
C1_OriginKeysAreEnabledOrigins ==
  /\ DOMAIN origins = enabled
  /\ (last.op = "disable" /\ last.result = "Ok") => LastOrigin \notin DOMAIN origins

\* one origin was disabled through a different spelling while another stays enabled
C1_Witness ==
  /\ last.op = "disable"
  /\ last.result = "Ok"
  /\ last.origin = HTTP \o <<"a", ":", "8", "0", "/", "x">>
  /\ DOMAIN origins = {<<"h", "t", "t", "p", "s", ":", "/", "/", "b">>}

\* C2: enable of an origin that is already a key of the map performs no fetch,
\* writes nothing to the cache, leaves the whole map unchanged and returns Ok.
C2_EnableKnownOriginIsNoOp ==
  [][(/\ last'.op = "enable"
      /\ tick' # tick
      /\ Url_parse(last'.origin).ok
      /\ base_url(Url_parse(last'.origin)) \in DOMAIN origins)
     => (/\ ~last'.fetched
         /\ ~last'.round_trip
         /\ http_cache' = http_cache
         /\ origins' = origins
         /\ last'.result = "Ok")]_vars

\* enable was called on a known origin, spelled differently, and returned Ok unfetched
C2_Witness ==
  /\ last.op = "enable"
  /\ last.result = "Ok"
  /\ ~last.fetched
  /\ last.origin = HTTP \o <<"a", ":", "8", "0", "/", "x">>
  /\ LastOrigin \in DOMAIN origins

\* C3: check_origin never changes the origin map, whatever the outcome of the
\* fetch, the decoding and the validation.
C3_CheckOriginKeepsMap ==
  [][(last'.op = "check_origin" /\ tick' # tick) => origins' = origins]_vars

\* check_origin fetched and validated a configuration, and the origin is not in the map
C3_Witness ==
  /\ last.op = "check_origin"
  /\ last.result = "Ok"
  /\ last.fetch_ok
  /\ LastOrigin \notin DOMAIN origins

\* a check_origin call, in the step that makes it, finds the negative entry
ChecksAgainstNegativeEntry ==
  /\ last'.op = "check_origin"
  /\ tick' # tick
  /\ Url_join(Url_parse(last'.origin), CONFIG_PATH).ok
  /\ ConfigUrl(last'.origin) \in DOMAIN http_cache
  /\ http_cache[ConfigUrl(last'.origin)] = NegativeEntry

\* while the negative entry is retained, check_origin fails with the parse
\* error of the empty body and makes no round-trip
NegativeEntryFailsFast ==
  ChecksAgainstNegativeEntry =>
    (/\ last'.result = "EOF while parsing a value"
     /\ ~last'.round_trip
     /\ http_cache' = http_cache)

\* only the cache dropping the entry removes a negative entry
NegativeEntryStays ==
  \A u \in DOMAIN http_cache :
    (http_cache[u] = NegativeEntry /\ ~(last'.op = "evict" /\ last'.origin = u))
      => (u \in DOMAIN http_cache' /\ http_cache'[u] = NegativeEntry)

\* the step is a call whose fetch of the configuration URL failed
FetchFailedInStep == tick' # tick /\ last'.fetched /\ ~last'.fetch_ok

NegativeEntryStored ==
  /\ ConfigUrl(last'.origin) \in DOMAIN http_cache'
  /\ http_cache'[ConfigUrl(last'.origin)] = NegativeEntry

C5_FailingCallsKeepMap ==
  [][(tick' # tick /\ last'.op \in {"enable", "disable", "check_origin"}) =>
       (/\ last'.result # "Ok" => origins' = origins
        /\ ~Url_parse(last'.origin).ok => last'.result # "Ok"
        /\ (last'.fetched /\ ~last'.fetch_ok) => last'.result # "Ok"
        /\ (last'.fetched /\ last'.fetch_ok /\ ~from_str(last'.source).ok)
             => last'.result # "Ok"
        /\ (/\ last'.fetched
            /\ last'.fetch_ok
            /\ from_str(last'.source).ok
            /\ ~validate_config(from_str(last'.source).config))
             => last'.result # "Ok")]_vars

\* an enable failed on a rejected configuration while another origin is enabled
C5_Witness ==
  /\ last.op = "enable"
  /\ last.result = "InvalidConfig"
  /\ DOMAIN origins # {}
  /\ LastOrigin \notin DOMAIN origins

(***************************************************************************)
(* validate_config as a function of its argument: SpecValidate calls it on *)
(* every configuration of a bounded family.                                *)
(***************************************************************************)
\* the longest variables list of a generated registry
MaxVariables == 2

NameA == <<"a">>
NameB == <<"b">>
\* url templates: no reference, ${a}, ${{b}}, and the unbalanced ${{a}
ValidateUrls ==
  { <<"/", "u">>,
    <<"/", "$", "{", "a", "}">>,
    <<"/", "$", "{", "{", "b", "}", "}">>,
    <<"/", "$", "{", "{", "a", "}">> }

\* "/:a/:b", "/:b/:a", "/:a", "/(x)/:a" (an unnamed key), "/:a/:b/:a" (a name
\* used twice) and "/x?" (which does not parse)
ValidateSchemas ==
  { <<"/", ":", "a", "/", ":", "b">>,
    <<"/", ":", "b", "/", ":", "a">>,
    <<"/", ":", "a">>,
    <<"/", "(", "x", ")", "/", ":", "a">>,
    <<"/", ":", "a", "/", ":", "b", "/", ":", "a">>,
    <<"/", "x", "?">> }

SeqsUpTo(S, n) == UNION {[1..k -> S] : k \in 0..n}

\* one generated registry, then no second registry, an accepted or a rejected one
ValidateConfigs ==
  { ConfigJson(v, <<Registry(s, vs)>> \o tl) :
      v \in 0..3, s \in ValidateSchemas,
      vs \in SeqsUpTo({Variable(k, None, u) : k \in {NameA, NameB}, u \in ValidateUrls},
                      MaxVariables),
      tl \in { <<>>, <<Registry(<<"/", "x">>, <<>>)>>, <<Registry(<<"/", ":", "a">>, <<>>)>> } }

InitValidate ==
  /\ origins = EmptyMap
  /\ http_cache = EmptyMap
  /\ last = NoCall
  /\ tick = 0
  /\ enabled = {}
  /\ request \in {[fn |-> "validate_config", config |-> c] : c \in ValidateConfigs}
  /\ response = Pending

Validate ==
  /\ request.fn = "validate_config"
  /\ ~response.done
  /\ response' = [done |-> TRUE, ok |-> validate_config(request.config)]
  /\ UNCHANGED <<mgr_vars, request>>

NextValidate == Validate

SpecValidate == InitValidate /\ [][NextValidate]_vars

(***************************************************************************)
(* Properties of validate_config (checked under SpecValidate).             *)
(***************************************************************************)
Occurs(s, p) == \E i \in 1..Len(s) : OccursAt(s, p, i)

\* the two placeholder forms of a name
RawPlaceholder(n) == <<"$", "{">> \o n \o <<"}">>
EncodedPlaceholder(n) == <<"$", "{", "{">> \o n \o <<"}", "}">>

\* url references v in the ${v} or the ${{v}} form
References(url, v) == Occurs(url, RawPlaceholder(v)) \/ Occurs(url, EncodedPlaceholder(v))

\* url references v in any form REPLACEMENT_VARIABLE_RE matches, which adds
\* the unbalanced ${{v} to the two forms above
ReferencesLoosely(url, v) ==
  Occurs(url, RawPlaceholder(v)) \/ Occurs(url, <<"$", "{", "{">> \o v \o <<"}">>)

\* the named parameters of a schema, left to right (empty if it does not parse)
SchemaParameters(schema) ==
  LET toks == parse(schema).tokens
      named == SelectSeq(toks, LAMBDA tk : tk.kind = "Key" /\ tk.name.str)
  IN [i \in 1..Len(named) |-> named[i].name.s]

\* v is a named parameter strictly to the left of the (first) parameter k
StrictlyLeft(names, v, k) ==
  \E j \in 1..Len(names) :
    /\ names[j] = v
    /\ \E i \in 1..Len(names) : names[i] = k
    /\ \A i \in 1..Len(names) : names[i] = k => j < i

\* the configuration has a reference the dependency order forbids
HasForbiddenReference(config, Refs(_, _)) ==
  \E i \in 1..Len(config.registries) :
    LET reg == config.registries[i]
        names == SchemaParameters(reg.schema)
    IN \E j \in 1..Len(reg.variables), v \in {NameA, NameB} :
         /\ Refs(reg.variables[j].url, v)
         /\ ~StrictlyLeft(names, v, reg.variables[j].key)
         /\ ~(v = reg.variables[j].key /\ config.version = 2)

EveryParameterDeclared(config) ==
  \A i \in 1..Len(config.registries) :
    LET reg == config.registries[i]
        names == SchemaParameters(reg.schema)
    IN \A n \in 1..Len(names) :
         \E j \in 1..Len(reg.variables) : reg.variables[j].key = names[n]

EveryVariableIsParameter(config) ==
  \A i \in 1..Len(config.registries) :
    LET reg == config.registries[i]
        names == SchemaParameters(reg.schema)
    IN \A j \in 1..Len(reg.variables) :
         \E n \in 1..Len(names) : names[n] = reg.variables[j].key

EverySchemaParses(config) ==
  \A i \in 1..Len(config.registries) : parse(config.registries[i].schema).ok

Validated == request.fn = "validate_config" /\ response.done

C9_Original_ExactlyOneVariablePerParameter ==
  (Validated /\ response.ok) =>
    \A i \in 1..Len(request.config.registries) :
      LET reg == request.config.registries[i]
          names == SchemaParameters(reg.schema)
      IN /\ \A n \in 1..Len(names) :
              Cardinality({j \in 1..Len(reg.variables) : reg.variables[j].key = names[n]}) = 1
         /\ \A j \in 1..Len(reg.variables) :
              \E n \in 1..Len(names) : names[n] = reg.variables[j].key

(***************************************************************************)
(* The template substitutor: replace_variable, get_endpoint,               *)
(* get_endpoint_with_match, get_data.                                      *)
(***************************************************************************)
\* Rust: const COMPONENT: the characters percent_encode escapes, with their
\* escapes (the ASCII controls, the double quote, the backtick and the
\* backslash, also in the set, are not in the alphabet)
ComponentEscapes ==
  <<  <<" ", "2", "0">>, <<"#", "2", "3">>, <<"<", "3", "C">>,
      <<">", "3", "E">>, <<"?", "3", "F">>, <<"{", "7", "B">>,
      <<"}", "7", "D">>, <<"/", "2", "F">>, <<":", "3", "A">>, <<";", "3", "B">>,
      <<"=", "3", "D">>, <<"@", "4", "0">>, <<"[", "5", "B">>, 
      <<"]", "5", "D">>, <<"^", "5", "E">>, <<"|", "7", "C">>, <<"$", "2", "4">>,
      <<"&", "2", "6">>, <<"+", "2", "B">>, <<",", "2", "C">>  >>

COMPONENT == {ComponentEscapes[i][1] : i \in 1..Len(ComponentEscapes)}

\* percent_encoding::percent_encode(s.as_bytes(), COMPONENT).to_string()
RECURSIVE percent_encode(_)
percent_encode(s) ==
  IF s = <<>> THEN <<>>
  ELSE (IF Head(s) \in COMPONENT
        THEN LET e == CHOOSE i \in 1..Len(ComponentEscapes) :
                        ComponentEscapes[i][1] = Head(s)
             IN <<"%", ComponentEscapes[e][2], ComponentEscapes[e][3]>>
        ELSE <<Head(s)>>)
       \o percent_encode(Tail(s))

\* Rust: fn replace_variable(url, variable, maybe_value) -> String
replace_variable(url, variable, maybe_value) ==
  LET value == IF maybe_value.some THEN maybe_value.v ELSE <<>> IN
  IF variable.name.str
  THEN str_replace(str_replace(url, <<"$", "{">> \o variable.name.s \o <<"}">>, value),
                   <<"$", "{", "{">> \o variable.name.s \o <<"}", "}">>, value)
  ELSE url

\* Rust: fn parse_url_with_base(url, base) -> Result<ModuleSpecifier, AnyError>
parse_url_with_base(url, base) ==
  LET u == Url_parse(url) IN
  IF u.ok THEN u
  ELSE IF u.err = "RelativeUrlWithoutBase" THEN Url_join(base, url)
  ELSE u

\* Rust: fn get_endpoint(url, base, variable, maybe_value)
get_endpoint(url, base, variable, maybe_value) ==
  parse_url_with_base(replace_variable(url, variable, maybe_value), base)

\* tokens.iter().find_map(|t| match t { Token::Key(k) if k.name == *key => Some(k), .. })
find_key(tokens, name) ==
  LET ks == SelectSeq(tokens, LAMBDA tk : tk.kind = "Key" /\ tk.name = name)
  IN IF ks = <<>> THEN None ELSE Some(ks[1])

\* lines 186-202: the loop over match_result.params, from its i-th entry on
RECURSIVE replace_params(_, _, _, _)
replace_params(url, tokens, params, i) ==
  IF i > Len(params) THEN url
  ELSE IF ~params[i].key.str THEN replace_params(url, tokens, params, i + 1)
  ELSE LET name == params[i].key.s
           text == sov_to_string(params[i].value, find_key(tokens, params[i].key))
           u1 == str_replace(url, <<"$", "{">> \o name \o <<"}">>, text)
           u2 == str_replace(u1, <<"$", "{", "{">> \o name \o <<"}", "}">>, percent_encode(text))
       IN replace_params(u2, tokens, params, i + 1)

\* Rust: fn get_endpoint_with_match(variable, url, base, tokens, match_result, maybe_value)
get_endpoint_with_match(variable, url, base, tokens, match_result, maybe_value) ==
  LET u0 == IF maybe_value.some THEN replace_variable(url, variable, maybe_value) ELSE url
      u1 == replace_params(u0, tokens, match_result.params, 1)
      u2 == IF ~maybe_value.some THEN replace_variable(u1, variable, None) ELSE u1
  IN parse_url_with_base(u2, base)

\* RegistryConfiguration::get_url_for_key
get_url_for_key(registry, key) ==
  LET vs == SelectSeq(registry.variables, LAMBDA v : key.name = StrName(v.key))
  IN IF vs = <<>> THEN None ELSE Some(vs[1].url)

\* RegistryConfiguration::get_documentation_url_for_key (find_map: the first
\* variable of that key that has a documentation template)
get_documentation_url_for_key(registry, key) ==
  LET vs == SelectSeq(registry.variables,
                      LAMBDA v : key.name = StrName(v.key) /\ v.documentation.some)
  IN IF vs = <<>> THEN None ELSE Some(vs[1].documentation.v)

\* Rust: fn get_data(registry, base, variable, value) -> Option<Value>: the
\* documentation specifier of json!({ "documentation": specifier })
get_data(registry, base, variable, value) ==
  LET url == get_documentation_url_for_key(registry, variable)
      e == get_endpoint(url.v, base, variable, Some(value))
  IN IF ~url.some THEN None
     ELSE IF ~e.ok THEN None
     ELSE Some(Url_as_str(e))

(***************************************************************************)
(* The cursor classifier and the completion engine.                        *)
(***************************************************************************)
\* Option<CompletorType>: kind "Literal" with s, kind "Key" with key, prefix
\* and index (counting the tokens from 1), or kind "None"; early tells that
\* the walk ended at the `return None` of a parameter
CompletorType(kind, s, key, prefix, index, early) ==
  [kind |-> kind, s |-> s, key |-> key, prefix |-> prefix, index |-> index,
   early |-> early]

\* a variant of the walk that tests the value of a parameter with < instead
\* of <=
RECURSIVE completor_walk_strict_value(_, _, _, _, _)
completor_walk_strict_value(offset, tokens, match_result, index, len) ==
  IF index > Len(tokens) THEN CompletorType("None", <<>>, TokString(<<>>), None, 0, FALSE)
  ELSE LET tk == tokens[index] IN
    IF tk.kind = "String"
    THEN (IF offset < len + Len(tk.text) THEN CompletorType("Literal", tk.text, TokString(<<>>), None, 0, FALSE)
          ELSE completor_walk_strict_value(offset, tokens, match_result, index + 1,
                                           len + Len(tk.text)))
    ELSE LET len1 == len + Len(OptText(tk.prefix))
             value == IF tk.name.str
                      THEN LET v == match_result_get(match_result, tk.name.s)
                           IN IF v.some THEN sov_to_string(v.v, Some(tk)) ELSE <<>>
                      ELSE <<>>
             len2 == len1 + Len(value)
             len3 == len2 + Len(OptText(tk.suffix))
         IN IF tk.prefix.some /\ offset < len1 THEN CompletorType("Key", <<>>, tk, tk.prefix, index, FALSE)
            ELSE IF offset < len1 THEN CompletorType("None", <<>>, TokString(<<>>), None, 0, TRUE)
            ELSE IF tk.name.str /\ offset < len2 THEN CompletorType("Key", <<>>, tk, None, index, FALSE)
            ELSE IF tk.suffix.some /\ offset <= len3 THEN CompletorType("Literal", tk.suffix.v, TokString(<<>>), None, 0, FALSE)
            ELSE completor_walk_strict_value(offset, tokens, match_result, index + 1, len3)

\* a variant of the walk that adds the length of a literal without testing
\* the offset against it
RECURSIVE completor_walk_untested_literal(_, _, _, _, _)
completor_walk_untested_literal(offset, tokens, match_result, index, len) ==
  IF index > Len(tokens) THEN CompletorType("None", <<>>, TokString(<<>>), None, 0, FALSE)
  ELSE LET tk == tokens[index] IN
    IF tk.kind = "String"
    THEN completor_walk_untested_literal(offset, tokens, match_result, index + 1,
                                         len + Len(tk.text))
    ELSE LET len1 == len + Len(OptText(tk.prefix))
             value == IF tk.name.str
                      THEN LET v == match_result_get(match_result, tk.name.s)
                           IN IF v.some THEN sov_to_string(v.v, Some(tk)) ELSE <<>>
                      ELSE <<>>
             len2 == len1 + Len(value)
             len3 == len2 + Len(OptText(tk.suffix))
         IN IF tk.prefix.some /\ offset < len1 THEN CompletorType("Key", <<>>, tk, tk.prefix, index, FALSE)
            ELSE IF offset < len1 THEN CompletorType("None", <<>>, TokString(<<>>), None, 0, TRUE)
            ELSE IF tk.name.str /\ offset <= len2 THEN CompletorType("Key", <<>>, tk, None, index, FALSE)
            ELSE IF tk.suffix.some /\ offset <= len3 THEN CompletorType("Literal", tk.suffix.v, TokString(<<>>), None, 0, FALSE)
            ELSE completor_walk_untested_literal(offset, tokens, match_result, index + 1, len3)

\* the walk of get_completor_type from the token `index` on, len the running
\* length
RECURSIVE completor_walk(_, _, _, _, _)
completor_walk(offset, tokens, match_result, index, len) ==
  IF index > Len(tokens) THEN CompletorType("None", <<>>, TokString(<<>>), None, 0, FALSE)
  ELSE LET tk == tokens[index] IN
    IF tk.kind = "String"
    THEN (IF offset < len + Len(tk.text) THEN CompletorType("Literal", tk.text, TokString(<<>>), None, 0, FALSE)
          ELSE completor_walk(offset, tokens, match_result, index + 1,
                              len + Len(tk.text)))
    ELSE LET len1 == len + Len(OptText(tk.prefix))
             value == IF tk.name.str
                      THEN LET v == match_result_get(match_result, tk.name.s)
                           IN IF v.some THEN sov_to_string(v.v, Some(tk)) ELSE <<>>
                      ELSE <<>>
             len2 == len1 + Len(value)
             len3 == len2 + Len(OptText(tk.suffix))
         IN IF tk.prefix.some /\ offset < len1 THEN CompletorType("Key", <<>>, tk, tk.prefix, index, FALSE)
            ELSE IF offset < len1 THEN CompletorType("None", <<>>, TokString(<<>>), None, 0, TRUE)
            ELSE IF tk.name.str /\ offset <= len2 THEN CompletorType("Key", <<>>, tk, None, index, FALSE)
            ELSE IF tk.suffix.some /\ offset <= len3 THEN CompletorType("Literal", tk.suffix.v, TokString(<<>>), None, 0, FALSE)
            ELSE completor_walk(offset, tokens, match_result, index + 1, len3)

\* Rust: fn get_completor_type(offset, tokens, match_result) -> Option<CompletorType>
get_completor_type(offset, tokens, match_result) ==
  completor_walk(offset, tokens, match_result, 1, 0)

\* Rust: fn get_preselect(item, preselect) -> Option<bool>
get_preselect(item, preselect) == IF Some(item) = preselect THEN Some(TRUE) ELSE None

\* lsp::CompletionItem, the fields the source sets
CompletionItem(label, kind, detail, sort_text, filter_text, new_text, command, preselect, data) ==
  [label |-> label, kind |-> kind, detail |-> detail, sort_text |-> sort_text,
   filter_text |-> filter_text, new_text |-> new_text, command |-> command,
   preselect |-> preselect, data |-> data]

\* format!("{:0>10}", n) for a one-digit n
sort_text_of(n) ==
  <<"0", "0", "0", "0", "0", "0", "0", "0", "0">>
  \o <<(<<"1", "2", "3", "4", "5", "6", "7", "8", "9">>)[n]>>

\* a variant of the insert that keeps the value of a key that is present
completions_insert_vacant(completions, key, item) ==
  [k \in DOMAIN completions \cup {key} |->
     IF k \in DOMAIN completions THEN completions[k] ELSE item]

\* HashMap::insert: the value of a key that is present is replaced
completions_insert(completions, key, item) ==
  [k \in DOMAIN completions \cup {key} |-> IF k = key THEN item ELSE completions[k]]

\* a response of the server to a fetch of variable items: none when the fetch
\* or the decoding fails, else VariableItems::Simple(items) or
\* VariableItems::List { items, is_incomplete, preselect }
VariableItems(ok, list, items, is_incomplete, preselect) ==
  [ok |-> ok, list |-> list, items |-> items, is_incomplete |-> is_incomplete,
   preselect |-> preselect]

\* the locals of get_completions that the loops change, the log of the prefix
\* match attempts and of the fetches, and how the function is left: "run"
\* while it runs, "parse_failed", "matcher_failed" or "join_failed" at the `?`
\* that returns none from the loops, "panic" at a failed slice or subtraction
Locals(completions, is_incomplete, did_match, attempts, fetches, status) ==
  [completions |-> completions, is_incomplete |-> is_incomplete,
   did_match |-> did_match, attempts |-> attempts, fetches |-> fetches,
   status |-> status]

\* Rust: fn complete_literal(s, completions, current_specifier, offset, range);
\* &current_specifier[..offset] and [offset..] index bytes, and panic when
\* offset is beyond the end or is not a char boundary
complete_literal(acc, s, current_specifier, offset) ==
  LET \* the length in bytes of the first n scalar values of current_specifier
      bytes(n) == n + Cardinality({k \in 1..n : current_specifier[k] = TwoByteChar})
      \* str::is_char_boundary(offset), as the number of scalar values before it
      boundary == {n \in 0..Len(current_specifier) : bytes(n) = offset}
      inserted(n) ==
        [acc EXCEPT !.completions =
           completions_insert(@, s,
             CompletionItem(s, "FOLDER", None, <<"1">>,
                            Some(Take(current_specifier, n) \o s \o Drop(current_specifier, n)),
                            Take(current_specifier, n) \o s \o Drop(current_specifier, n),
                            None, None, None))]
  IN IF boundary = {} THEN [acc EXCEPT !.status = "panic"]
     ELSE inserted(CHOOSE n \in boundary : TRUE)

\* the schema's last token, if a named key, names the files
last_key_name_of(tokens) ==
  IF tokens # <<>> /\ tokens[Len(tokens)].kind = "Key" /\ tokens[Len(tokens)].name.str
  THEN tokens[Len(tokens)].name
  ELSE StrName(<<>>)

\* a variant of key_items that attaches the command without asking
\* specifier_exists
RECURSIVE key_items_unasked(_, _, _, _, _, _, _, _)
key_items_unasked(acc, ctx, registry, tokens, match_result, ct, resp, idx) ==
  IF idx > Len(resp.items) THEN acc
  ELSE LET item == resp.items[idx]
           key == ct.key
           label == IF ct.prefix.some THEN ct.prefix.v \o item ELSE item
           is_last == key.name = last_key_name_of(tokens)
           params == params_insert(match_result.params, key.name, sov_from_str(item, key))
           compiled == to_path(SubSeq(tokens, 1, ct.index), params)
           path == IF compiled.ok THEN compiled.path ELSE <<>>
           item_specifier == Url_join(Url_parse(ctx.origin), path)
           full_text == Url_as_str(item_specifier)
           command == IF is_last THEN Some(full_text) ELSE None
           detail == Some(<<"(">> \o (IF key.name.str THEN key.name.s ELSE <<>>) \o <<")">>)
       IN IF ~item_specifier.ok THEN [acc EXCEPT !.status = "join_failed"]
          ELSE key_items_unasked(
                 [acc EXCEPT !.completions =
                    completions_insert(@, item,
                      CompletionItem(label, IF is_last THEN "FILE" ELSE "FOLDER", detail,
                                     sort_text_of(idx), Some(full_text), full_text, command,
                                     get_preselect(item, resp.preselect),
                                     get_data(registry, ctx.specifier, key, item)))],
                 ctx, registry, tokens, match_result, ct, resp, idx + 1)

\* lines 625-684: the items of a Key classification from the idx-th on
RECURSIVE key_items(_, _, _, _, _, _, _, _)
key_items(acc, ctx, registry, tokens, match_result, ct, resp, idx) ==
  IF idx > Len(resp.items) THEN acc
  ELSE LET item == resp.items[idx]
           key == ct.key
           label == IF ct.prefix.some THEN ct.prefix.v \o item ELSE item
           is_last == key.name = last_key_name_of(tokens)
           params == params_insert(match_result.params, key.name, sov_from_str(item, key))
           compiled == to_path(SubSeq(tokens, 1, ct.index), params)
           path == IF compiled.ok THEN compiled.path ELSE <<>>
           item_specifier == Url_join(Url_parse(ctx.origin), path)
           full_text == Url_as_str(item_specifier)
           command == IF is_last /\ full_text \notin ctx.exists THEN Some(full_text) ELSE None
           detail == Some(<<"(">> \o (IF key.name.str THEN key.name.s ELSE <<>>) \o <<")">>)
       IN IF ~item_specifier.ok THEN [acc EXCEPT !.status = "join_failed"]
          ELSE key_items(
                 [acc EXCEPT !.completions =
                    completions_insert(@, item,
                      CompletionItem(label, IF is_last THEN "FILE" ELSE "FOLDER", detail,
                                     sort_text_of(idx), Some(full_text), full_text, command,
                                     get_preselect(item, resp.preselect),
                                     get_data(registry, ctx.specifier, key, item)))],
                 ctx, registry, tokens, match_result, ct, resp, idx + 1)

\* a variant of on_match that leaves is_incomplete as it was
on_match_flag_kept(acc, ctx, registry, tokens, match_result) ==
  LET ct == get_completor_type(ctx.path_offset, tokens, match_result)
      acc1 == [acc EXCEPT !.did_match = TRUE]
  IN IF ct.kind = "Literal"
     THEN complete_literal(acc1, ct.s, ctx.current_specifier, ctx.offset)
     ELSE IF ct.kind = "Key"
     THEN LET maybe_url == get_url_for_key(registry, ct.key)
              target == get_endpoint_with_match(ct.key, maybe_url.v, ctx.specifier,
                                                tokens, match_result, None)
              acc2 == [acc1 EXCEPT !.fetches = Append(@, Url_as_str(target))]
          IN IF ~maybe_url.some \/ ~target.ok THEN acc1
             ELSE IF ~ctx.server.ok THEN acc2
             ELSE key_items(acc2, ctx, registry, tokens, match_result, ct, ctx.server, 1)
     ELSE acc1

\* lines 589-689: a prefix of the schema matched
on_match(acc, ctx, registry, tokens, match_result) ==
  LET ct == get_completor_type(ctx.path_offset, tokens, match_result)
      acc1 == [acc EXCEPT !.did_match = TRUE]
  IN IF ct.kind = "Literal"
     THEN complete_literal(acc1, ct.s, ctx.current_specifier, ctx.offset)
     ELSE IF ct.kind = "Key"
     THEN LET maybe_url == get_url_for_key(registry, ct.key)
              \* get_variable_items: the fetch target, the fetch, the decoding
              target == get_endpoint_with_match(ct.key, maybe_url.v, ctx.specifier,
                                                tokens, match_result, None)
              acc2 == [acc1 EXCEPT !.fetches = Append(@, Url_as_str(target))]
          IN IF ~maybe_url.some \/ ~target.ok THEN acc1
             ELSE IF ~ctx.server.ok THEN acc2
             ELSE key_items([acc2 EXCEPT !.is_incomplete = @ \/ ctx.server.is_incomplete],
                            ctx, registry, tokens, match_result, ct, ctx.server, 1)
     ELSE acc1

\* lines 729-791: the items of the first key after no prefix matched
RECURSIVE first_key_items(_, _, _, _, _, _, _)
first_key_items(acc, ctx, registry, tokens, k, resp, idx) ==
  IF idx > Len(resp.items) THEN acc
  ELSE LET item == resp.items[idx]
           path == k.prefix.v \o item
           item_specifier == Url_join(Url_parse(ctx.origin), path)
           full_text == Url_as_str(item_specifier)
           command == IF k.name = last_key_name_of(tokens) /\ full_text \notin ctx.exists
                      THEN Some(full_text) ELSE None
           detail == Some(<<"(">> \o (IF k.name.str THEN k.name.s ELSE <<>>) \o <<")">>)
       IN IF ~item_specifier.ok THEN [acc EXCEPT !.status = "join_failed"]
          ELSE first_key_items(
                 [acc EXCEPT !.completions =
                    completions_insert(@, item,
                      CompletionItem(item, "FOLDER", detail, sort_text_of(idx),
                                     Some(full_text), full_text, command,
                                     get_preselect(item, resp.preselect),
                                     get_data(registry, ctx.specifier, k, path)))],
                 ctx, registry, tokens, k, resp, idx + 1)

\* lines 692-797: no prefix matched, the first token alone is looked at
first_token(acc, ctx, registry, tokens) ==
  LET tk == tokens[1] IN
  IF tk.kind = "String"
  THEN (IF starts_with(tk.text, ctx.path)
        THEN LET full_text == Url_as_str([ctx.specifier EXCEPT !.path = tk.text])
             IN [acc EXCEPT !.completions =
                   completions_insert(@, tk.text,
                     CompletionItem(tk.text, "FOLDER", None, <<"1">>, Some(full_text),
                                    full_text, None, Some(TRUE), None))]
        ELSE acc)
  ELSE LET maybe_url == get_url_for_key(registry, tk)
           \* get_items: the fetch target, the fetch, the decoding
           target == Url_parse(maybe_url.v)
           acc1 == [acc EXCEPT !.fetches = Append(@, Url_as_str(target))]
       IN IF ~tk.prefix.some \/ ~maybe_url.some \/ ~target.ok THEN acc
          ELSE IF ~ctx.server.ok THEN acc1
          ELSE first_key_items(
                 [acc1 EXCEPT !.is_incomplete = @ \/ ctx.server.is_incomplete],
                 ctx, registry, tokens, tk, ctx.server, 1)

\* a variant of prefix_loop that goes on to the shorter prefixes after a match
RECURSIVE prefix_loop_unbroken(_, _, _, _, _, _)
prefix_loop_unbroken(acc, ctx, r, registry, tokens, i) ==
  IF ~Matcher_new(SubSeq(tokens, 1, i)) THEN [acc EXCEPT !.status = "matcher_failed"]
  ELSE LET acc1 == [acc EXCEPT !.attempts = Append(@, <<r, i>>)]
           tried(m) ==
             IF m.some /\ i - 1 > 0
             THEN prefix_loop_unbroken(on_match(acc1, ctx, registry, tokens, m.v),
                                       ctx, r, registry, tokens, i - 1)
             ELSE IF m.some THEN on_match(acc1, ctx, registry, tokens, m.v)
             ELSE IF i = 0 THEN [acc1 EXCEPT !.status = "panic"]
             ELSE IF i - 1 = 0 THEN first_token(acc1, ctx, registry, tokens)
             ELSE prefix_loop_unbroken(acc1, ctx, r, registry, tokens, i - 1)
       IN tried(matches(SubSeq(tokens, 1, i), ctx.path))

\* a variant of prefix_loop that looks at the first token after a match too
RECURSIVE prefix_loop_falling_through(_, _, _, _, _, _)
prefix_loop_falling_through(acc, ctx, r, registry, tokens, i) ==
  IF ~Matcher_new(SubSeq(tokens, 1, i)) THEN [acc EXCEPT !.status = "matcher_failed"]
  ELSE LET acc1 == [acc EXCEPT !.attempts = Append(@, <<r, i>>)]
           tried(m) ==
             IF m.some
             THEN first_token(on_match(acc1, ctx, registry, tokens, m.v), ctx, registry, tokens)
             ELSE IF i = 0 THEN [acc1 EXCEPT !.status = "panic"]
             ELSE IF i - 1 = 0 THEN first_token(acc1, ctx, registry, tokens)
             ELSE prefix_loop_falling_through(acc1, ctx, r, registry, tokens, i - 1)
       IN tried(matches(SubSeq(tokens, 1, i), ctx.path))

\* lines 579-798: the loop over the prefixes tokens[..i] of the r-th schema.
\* At i = 0 the `i -= 1` of line 692 overflows: a build with overflow checks
\* panics there, a build without them wraps i to usize::MAX, passes the test
\* of line 695 and panics at the slice tokens[..i] of line 581
RECURSIVE prefix_loop(_, _, _, _, _, _)
prefix_loop(acc, ctx, r, registry, tokens, i) ==
  IF ~Matcher_new(SubSeq(tokens, 1, i)) THEN [acc EXCEPT !.status = "matcher_failed"]
  ELSE LET acc1 == [acc EXCEPT !.attempts = Append(@, <<r, i>>)]
           tried(m) ==
             IF m.some THEN on_match(acc1, ctx, registry, tokens, m.v)
             ELSE IF i = 0 THEN [acc1 EXCEPT !.status = "panic"]
             ELSE IF i - 1 = 0 THEN first_token(acc1, ctx, registry, tokens)
             ELSE prefix_loop(acc1, ctx, r, registry, tokens, i - 1)
       IN tried(matches(SubSeq(tokens, 1, i), ctx.path))

\* lines 557-799: the loop over the schemas of the origin, from the r-th on
RECURSIVE registries_loop(_, _, _, _)
registries_loop(acc, ctx, registries, r) ==
  IF r > Len(registries) \/ acc.status # "run" THEN acc
  ELSE LET continued(next) ==
             IF next.status = "run" THEN registries_loop(next, ctx, registries, r + 1)
             ELSE next
           looped(parsed) ==
             continued(IF ~parsed.ok THEN [acc EXCEPT !.status = "parse_failed"]
                       ELSE prefix_loop(acc, ctx, r, registries[r], parsed.tokens,
                                        Len(parsed.tokens)))
       IN looped(parse(registries[r].schema))

\* Option<lsp::CompletionList>: none, or the items (keyed as the source's map
\* keys them, their order in the list being the map's) and is_incomplete;
\* "panic" when the call does not return; locals are those of the call's end
NoLocals == Locals(EmptyMap, FALSE, FALSE, <<>>, <<>>, "run")

Answer(kind, items, is_incomplete, source, locals) ==
  [kind |-> kind, items |-> items, is_incomplete |-> is_incomplete,
   source |-> source, locals |-> locals]

\* completions.into_iter().map(|(_, i)| i).collect(): the items in one of the
\* orders in which a HashMap may hand out its entries (any order of the keys)
into_iter(completions) ==
  {[i \in 1..Len(order) |-> completions[order[i]]] :
     order \in {o \in [1..Cardinality(DOMAIN completions) -> DOMAIN completions] :
                  \A i, j \in DOMAIN o : i # j => o[i] # o[j]}}

\* a variant of get_origin_completions that lists every known origin
get_origin_completions_unfiltered(origin_map, current_specifier) ==
  LET label(k) == IF ends_with(k, <<"/">>) THEN Take(k, Len(k) - 1) ELSE k
      keys == DOMAIN origin_map
      items == [l \in {label(k) : k \in keys} |->
                  CompletionItem(l, "FOLDER", Some(<<"(", "r", "e", "g", "i", "s", "t", "r", "y", ")">>),
                                 <<"2">>, None, l, None, None, None)]
  IN IF keys # {} THEN Answer("list", items, FALSE, "origins", NoLocals)
     ELSE Answer("none", EmptyMap, FALSE, "origins", NoLocals)

\* Rust: pub fn get_origin_completions(&self, current_specifier, range)
get_origin_completions(origin_map, current_specifier) ==
  LET label(k) == IF ends_with(k, <<"/">>) THEN Take(k, Len(k) - 1) ELSE k
      keys == {k \in DOMAIN origin_map : starts_with(label(k), current_specifier)}
      items == [l \in {label(k) : k \in keys} |->
                  CompletionItem(l, "FOLDER", Some(<<"(", "r", "e", "g", "i", "s", "t", "r", "y", ")">>),
                                 <<"2">>, None, l, None, None, None)]
  IN IF keys # {} THEN Answer("list", items, FALSE, "origins", NoLocals)
     ELSE Answer("none", EmptyMap, FALSE, "origins", NoLocals)

\* Rust: pub(crate) async fn get_completions(&self, current_specifier, offset,
\* range, specifier_exists); server answers the fetches of variable items,
\* exists is the set of the specifiers for which specifier_exists is true
get_completions(origin_map, current_specifier, offset, server, exists) ==
  LET specifier == Url_parse(current_specifier)
      origin == base_url(specifier)
      ctx == [specifier |-> specifier, origin |-> origin, path |-> BeforePath(specifier),
              path_offset |-> offset - Len(origin), current_specifier |-> current_specifier,
              offset |-> offset, server |-> server, exists |-> exists]
      returned(acc) ==
        IF acc.status = "panic" THEN Answer("panic", EmptyMap, FALSE, "registry", acc)
        ELSE IF acc.status # "run" \/ (acc.completions = EmptyMap /\ ~acc.did_match)
        THEN Answer("none", EmptyMap, FALSE, "registry", acc)
        ELSE Answer("list", acc.completions, acc.is_incomplete, "registry", acc)
  IN IF specifier.ok /\ offset >= Len(origin) /\ origin \in DOMAIN origin_map
     THEN returned(registries_loop(NoLocals, ctx, origin_map[origin], 1))
     ELSE get_origin_completions(origin_map, current_specifier)

(***************************************************************************)
(* Endpoint resolution as a specification of its own: the request is drawn *)
(* in the initial state, one step resolves it.                             *)
(***************************************************************************)
EndpointBase == Url_parse(HTTP \o <<"a">>)

EndpointTokens == parse(<<"/", ":", "a", "/", ":", "b">>).tokens

EndpointTemplates ==
  { <<"/", "d">>,
    <<"/", "d", "/", "$", "{", "a", "}">>,
    <<"/", "d", "/", "$", "{", "{", "a", "}", "}">>,
    <<"/", "$", "{", "a", "}", "/", "$", "{", "{", "b", "}", "}">>,
    <<"/", "$", "{", "{", "a", "}", "}", "/", "$", "{", "b", "}">> }

EndpointTexts == { <<"x">>, <<"a", "/", "b">>, <<"a", "@">> }

\* match_result.params: nothing, the first parameter, or both, in schema order
EndpointParams ==
  LET values == {SovString(s) : s \in EndpointTexts} \cup {SovVec(<<<<"x">>, <<"b">>>>)}
  IN {<<>>}
     \cup {<<Param(StrName(NameA), v)>> : v \in values}
     \cup {<<Param(StrName(NameA), v), Param(StrName(NameB), w)>> :
             v \in values, w \in values}

\* a registry of /:a/:b whose variables have the documentation template d
EndpointRegistry(d) ==
  Registry(<<"/", ":", "a", "/", ":", "b">>,
           <<Variable(NameA, Some(d), <<"/", "u">>), Variable(NameB, Some(d), <<"/", "u">>)>>)

EndpointRequests ==
  {[fn |-> "get_data", registry |-> EndpointRegistry(d), variable |-> k, value |-> v] :
     d \in EndpointTemplates, k \in Range(EndpointTokens), v \in EndpointTexts}
  \cup
  {[fn |-> "get_endpoint_with_match", variable |-> k, url |-> u,
    match_result |-> MatchResult(<<>>, ps)] :
     k \in Range(EndpointTokens), u \in EndpointTemplates, ps \in EndpointParams}

\* the longest token sequence given to the cursor classifier
MaxTokens == 3

\* the requests are those of the endpoint functions and, for the cursor
\* classifier, every sequence of up to MaxTokens tokens (a literal, and
\* parameters with and without a name, a prefix and a suffix), every offset up
\* to one past the longest rendering (a token renders at most 4 characters),
\* and match results that hold nothing, an empty text, a text or a repeated
\* value for a, and a text for b
InitEndpoint ==
  LET token == { TokString(<<"/", "x">>),
                 TokKey(StrName(NameA), <<"/">>, <<>>, DefaultPattern, None),
                 TokKey(StrName(NameA), <<>>, <<>>, DefaultPattern, None),
                 TokKey(StrName(NameB), <<"-">>, <<"+">>, DefaultPattern, None),
                 TokKey(NumName(0), <<"/">>, <<"+">>, DefaultPattern, None),
                 TokKey(NumName(0), <<>>, <<>>, DefaultPattern, None) }
      a == {<<>>} \cup {<<Param(StrName(NameA), v)>> :
                          v \in {SovString(<<>>), SovString(<<"x", "y">>),
                                 SovVec(<<<<"x">>, <<"b">>>>)}}
      b == {<<>>, <<Param(StrName(NameB), SovString(<<"v">>))>>}
  IN /\ origins = EmptyMap
     /\ http_cache = EmptyMap
     /\ last = NoCall
     /\ tick = 0
     /\ enabled = {}
     /\ \/ request \in EndpointRequests
        \/ \E n \in 0..MaxTokens, offset \in 0..(4 * MaxTokens + 1), pa \in a, pb \in b :
             \E tokens \in [1..n -> token] :
               request = [fn |-> "get_completor_type", offset |-> offset,
                          tokens |-> tokens,
                          match_result |-> MatchResult(<<>>, pa \o pb)]
     /\ response = Pending

\* a documentation URL is resolved for a completion item's data
GetData ==
  /\ request.fn = "get_data"
  /\ ~response.done
  /\ response' = [done |-> TRUE,
                  url |-> get_data(request.registry, EndpointBase,
                                   request.variable, request.value)]
  /\ UNCHANGED <<mgr_vars, request>>

\* a variable-items fetch target is resolved, as get_variable_items does it
GetEndpointWithMatch ==
  /\ request.fn = "get_endpoint_with_match"
  /\ ~response.done
  /\ response' =
       [done |-> TRUE,
        url |-> LET e == get_endpoint_with_match(request.variable, request.url,
                           EndpointBase, EndpointTokens, request.match_result, None)
                IN IF e.ok THEN Some(Url_as_str(e)) ELSE None]
  /\ UNCHANGED <<mgr_vars, request>>

\* the cursor is classified against a token sequence and a match result
GetCompletorType ==
  /\ request.fn = "get_completor_type"
  /\ ~response.done
  /\ response' = [done |-> TRUE,
                  type |-> get_completor_type(request.offset, request.tokens,
                                              request.match_result)]
  /\ UNCHANGED <<mgr_vars, request>>

NextEndpoint == GetData \/ GetEndpointWithMatch \/ GetCompletorType

SpecEndpoint == InitEndpoint /\ [][NextEndpoint]_vars

(***************************************************************************)
(* The two placeholder forms (section 3 of the specification, C10).        *)
(***************************************************************************)
\* the text of a template in which, reading left to right, every ${{n}} of a
\* name n of `names` is the percent-encoded value of n and every ${n} its raw
\* value
RECURSIVE Substituted(_, _, _)
Substituted(url, names, valueOf) ==
  IF url = <<>> THEN <<>>
  ELSE LET enc == {n \in names : starts_with(url, EncodedPlaceholder(n))}
           raw == {n \in names : starts_with(url, RawPlaceholder(n))}
       IN IF enc # {}
          THEN LET n == CHOOSE m \in enc : TRUE
               IN percent_encode(valueOf[n])
                  \o Substituted(Drop(url, Len(EncodedPlaceholder(n))), names, valueOf)
          ELSE IF raw # {}
          THEN LET n == CHOOSE m \in raw : TRUE
               IN valueOf[n]
                  \o Substituted(Drop(url, Len(RawPlaceholder(n))), names, valueOf)
          ELSE <<Head(url)>> \o Substituted(Tail(url), names, valueOf)

Resolved(text) ==
  LET e == parse_url_with_base(text, EndpointBase)
  IN IF e.ok THEN Some(Url_as_str(e)) ELSE None

\* the names that have a value in a request, and the value of each: the
\* variable and its value for a documentation URL; the matched parameters, and
\* the variable itself with the empty text unless matched, for a fetch target
NamesWithValue(req) ==
  IF req.fn = "get_data" THEN {req.variable.name.s}
  ELSE {req.match_result.params[i].key.s : i \in 1..Len(req.match_result.params)}
       \cup {req.variable.name.s}

ValueIn(req, n) ==
  IF req.fn = "get_data" THEN req.value
  ELSE LET is == {i \in 1..Len(req.match_result.params) :
                    req.match_result.params[i].key.s = n}
       IN IF is = {} THEN <<>>
          ELSE LET i == CHOOSE j \in is : TRUE
               IN sov_to_string(req.match_result.params[i].value,
                                find_key(EndpointTokens, req.match_result.params[i].key))

TemplateOf(req) ==
  IF req.fn = "get_data"
  THEN get_documentation_url_for_key(req.registry, req.variable).v
  ELSE req.url

\* C10: in every resolved endpoint (fetch target of variable items,
\* documentation URL) each ${n} of a name n that has a value is the raw value
\* and each ${{n}} is the percent-encoded value, so the resolved URL is the
\* substituted template resolved against the origin.
C10_Original_BothFormsSubstituted ==
  response.done =>
    response.url = Resolved(Substituted(TemplateOf(request), NamesWithValue(request),
                                        [n \in NamesWithValue(request) |-> ValueIn(request, n)]))

(***************************************************************************)
(* The order of the substitutions in a fetch target (C11).                 *)
(***************************************************************************)
\* the fetch target built in the order blank k, substitute the matched
\* parameters, blank k again
BlankedFirst(req) ==
  Resolved(replace_variable(
             replace_params(replace_variable(req.url, req.variable, None),
                            EndpointTokens, req.match_result.params, 1),
             req.variable, None))

\* C11: the fetch target of a Key{k} classification is built by blanking k's
\* own placeholder first, then substituting every named parameter of the match
\* result, then blanking k again, so a value of k in the match result never
\* appears in the fetch target.
C11_Original_OwnPlaceholderBlankedFirst ==
  (response.done /\ request.fn = "get_endpoint_with_match") =>
    response.url = BlankedFirst(request)

(***************************************************************************)
(* Completion requests as a specification of their own: the origin map     *)
(* holds one origin with a configuration that validate_config accepts, the *)
(* request is drawn in the initial state, one step answers it.             *)
(***************************************************************************)
CompletionOrigin == HTTP \o <<"a">>

ItemsUrl == CompletionOrigin \o <<"/", "u">>

\* /:a/:b, the items of b fetched with the value of a
RegistryTwoKeys ==
  Registry(<<"/", ":", "a", "/", ":", "b">>,
           <<Variable(NameA, Some(CompletionOrigin \o <<"/", "d">>), ItemsUrl),
             Variable(NameB, None, ItemsUrl \o <<"/", "$", "{", "a", "}">>)>>)

\* /x/:a, a literal first
RegistryLiteralFirst ==
  Registry(<<"/", "x", "/", ":", "a">>, <<Variable(NameA, None, ItemsUrl)>>)

\* the schema whose prefix has no regular expression, without variables
RegistryClassSpanning == Registry(ClassSpanningSchema, <<>>)

MaxRegistries == 2

CompletionConfigs ==
  {c \in SeqsUpTo({RegistryTwoKeys, RegistryLiteralFirst, RegistryClassSpanning},
                  MaxRegistries) :
     c # <<>> /\ validate_config(ConfigJson(1, c))}

CompletionPaths ==
  { <<>>, <<"/">>, <<"/", "x">>, <<"/", "x", "/">>, <<"/", "b">>, <<"/", "b", "/">>,
    <<"/", "x", "/", "b">>, <<"/", "/">> }

\* no answer, the plain lists [], ["b", "c"], ["b", "/"] and ["b", "b"], the
\* objects {items: ["c", "b"], isIncomplete: true, preselect: "b"} and
\* {items: ["b"]}
ItemResponses ==
  { VariableItems(FALSE, FALSE, <<>>, FALSE, None),
    VariableItems(TRUE, FALSE, <<>>, FALSE, None),
    VariableItems(TRUE, FALSE, <<<<"b">>, <<"c">>>>, FALSE, None),
    VariableItems(TRUE, FALSE, <<<<"b">>, <<"/">>>>, FALSE, None),
    VariableItems(TRUE, FALSE, <<<<"b">>, <<"b">>>>, FALSE, None),
    VariableItems(TRUE, TRUE, <<<<"c">>, <<"b">>>>, TRUE, Some(<<"b">>)),
    VariableItems(TRUE, TRUE, <<<<"b">>>>, FALSE, None) }

CompletionRequests ==
  {[fn |-> "get_completions", current_specifier |-> CompletionOrigin \o p,
    offset |-> o, server |-> s, exists |-> e] :
     p \in CompletionPaths, o \in (Len(CompletionOrigin) - 1)..(Len(CompletionOrigin) + 3),
     s \in ItemResponses,
     e \in {{}, {CompletionOrigin \o <<"/", "b">>, CompletionOrigin \o <<"/", "x", "/", "b">>},
            {CompletionOrigin \o dir \o item :
               dir \in {<<"/">>, <<"/", "x", "/">>, <<"/", "b", "/">>},
               item \in {<<"b">>, <<"c">>}}}}

\* either a request on the one known origin, or a request that is not past an
\* origin (a text that is no absolute URL, or an offset inside the origin)
\* while any of three origins are known, or a request whose text is not the
\* serialisation of its URL (no slashes after the scheme, or credentials with
\* a two-byte character) with the cursor at or after the origin's length, or
\* a request on a configuration with a schema that has no tokens
InitCompletions ==
  LET empty == Registry(<<>>, <<>>)
      unserialised == {<<"h", "t", "t", "p", ":", "a", "/", "x">>,
                       HTTP \o <<TwoByteChar, "@", "a", "/", "x">>}
      known == {CompletionOrigin, CompletionOrigin \o <<"b">>,
                <<"h", "t", "t", "p", "s", ":", "/", "/", "b">>}
      partial == {<<>>, <<"h">>, <<"x">>, <<"h", "t", "t", "p", "s">>, CompletionOrigin,
                  CompletionOrigin \o <<"/", "x">>}
  IN /\ \/ /\ \E c \in CompletionConfigs : origins = [o \in {CompletionOrigin} |-> c]
           /\ request \in CompletionRequests
        \/ /\ \E os \in SUBSET known : origins = [o \in os |-> <<RegistryLiteralFirst>>]
           /\ \E s \in partial, o \in 0..1 :
                request = [fn |-> "get_completions", current_specifier |-> s, offset |-> o,
                           server |-> VariableItems(FALSE, FALSE, <<>>, FALSE, None),
                           exists |-> {}]
        \/ /\ origins = [o \in {CompletionOrigin} |-> <<RegistryLiteralFirst>>]
           /\ \E s \in unserialised,
                 o \in Len(CompletionOrigin)..(Len(CompletionOrigin) + 2) :
                request = [fn |-> "get_completions", current_specifier |-> s, offset |-> o,
                           server |-> VariableItems(FALSE, FALSE, <<>>, FALSE, None),
                           exists |-> {}]
        \/ /\ \E c \in {<<empty>>, <<empty, RegistryLiteralFirst>>,
                         <<RegistryLiteralFirst, empty>>} :
                /\ validate_config(ConfigJson(1, c))
                /\ origins = [o \in {CompletionOrigin} |-> c]
           /\ \E p \in {<<>>, <<"/">>, <<"/", "x">>, <<"/", "b">>},
                 o \in Len(CompletionOrigin)..(Len(CompletionOrigin) + 1) :
                request = [fn |-> "get_completions",
                           current_specifier |-> CompletionOrigin \o p, offset |-> o,
                           server |-> VariableItems(FALSE, FALSE, <<>>, FALSE, None),
                           exists |-> {}]
     /\ http_cache = EmptyMap
     /\ last = NoCall
     /\ tick = 0
     /\ enabled = DOMAIN origins
     /\ response = Pending

\* the call returns; list is the items of the CompletionList as collected
\* from the map
GetCompletions ==
  LET returned(result) ==
        \E list \in into_iter(result.items) :
          response' = [done |-> TRUE, result |-> result, list |-> list]
  IN /\ request.fn = "get_completions"
     /\ ~response.done
     /\ returned(get_completions(origins, request.current_specifier, request.offset,
                                 request.server, request.exists))
     /\ UNCHANGED <<mgr_vars, request>>

NextCompletions == GetCompletions

SpecCompletions == InitCompletions /\ [][NextCompletions]_vars

(***************************************************************************)
(* What a completion request returns (C6, C7).                             *)
(***************************************************************************)
\* the request was answered from the registries of its origin
FromRegistries == response.done /\ response.result.source = "registry"

Returned == FromRegistries /\ response.result.kind # "panic"

\* C6: a get_completions call whose specifier is an absolute URL, whose offset
\* is at least the origin's length and whose origin is in the map returns
\* none if and only if no schema matched a prefix and no completion item was
\* produced; otherwise it returns the collected items.
C6_Original_NoneIffNothingMatchedNothingProduced ==
  Returned =>
    /\ response.result.kind = "none" <=>
         (~response.result.locals.did_match
          /\ response.result.locals.completions = EmptyMap)
    /\ response.result.kind = "list" =>
         response.result.items = response.result.locals.completions

\* the request on a configuration list in place of the origin's
AnswerWith(registries) ==
  get_completions([o \in DOMAIN origins |-> registries], request.current_specifier,
                  request.offset, request.server, request.exists)

\* a schema that fails to tokenise or for which a prefix matcher cannot be built
Unbuildable(registry) ==
  AnswerWith(<<registry>>).locals.status \in {"parse_failed", "matcher_failed"}

Buildable(registries) == SelectSeq(registries, LAMBDA r : ~Unbuildable(r))

\* C7: a schema that fails to tokenise, or for which a prefix matcher cannot
\* be built, is skipped: the request returns what it returns on the origin's
\* other schemas, those before and those after it.
C7_Original_UnbuildableSchemaIsSkipped ==
  FromRegistries =>
    LET skipping == AnswerWith(Buildable(origins[CompletionOrigin]))
    IN /\ response.result.kind = skipping.kind
       /\ response.result.items = skipping.items
       /\ response.result.is_incomplete = skipping.is_incomplete

(***************************************************************************)
(* The first-token fallback (C12).                                         *)
(***************************************************************************)
\* the path of the request's specifier
RequestPath == BeforePath(Url_parse(request.current_specifier))

\* no prefix tokens[0..i], i = N..1, of a non-empty token list matches the path
NoPrefixMatches(tokens, path) ==
  /\ tokens # <<>>
  /\ \A i \in 1..Len(tokens) : ~matches(SubSeq(tokens, 1, i), path).some

\* what the claim lets a schema contribute from its first token, said of the
\* answer to the request on that schema alone
FirstTokenOnly(registry, answer) ==
  LET tk == parse(registry.schema).tokens[1]
      url == get_url_for_key(registry, tk)
  IN IF tk.kind = "String" /\ starts_with(tk.text, RequestPath)
     THEN /\ answer.kind = "list"
          /\ DOMAIN answer.items = {tk.text}
          /\ answer.items[tk.text].label = tk.text
          /\ answer.items[tk.text].kind = "FOLDER"
          /\ answer.items[tk.text].preselect = Some(TRUE)
          /\ answer.items[tk.text].new_text = CompletionOrigin \o tk.text
     ELSE IF tk.kind = "Key" /\ tk.prefix.some /\ url.some /\ request.server.ok
     THEN /\ DOMAIN answer.items = Range(request.server.items)
          /\ \A item \in DOMAIN answer.items :
               answer.items[item].new_text = CompletionOrigin \o tk.prefix.v \o item
     ELSE answer.kind = "none"

\* C12: a schema none of whose prefixes matches the path contributes from
\* tokens[0] only: a literal that starts with the path gives one preselected
\* FOLDER item writing origin + s; a parameter with a prefix gives one item per
\* item of its endpoint, each writing origin + prefix + item; else nothing.
C12_Original_FallbackFromFirstToken ==
  FromRegistries =>
    \A r \in 1..Len(origins[CompletionOrigin]) :
      NoPrefixMatches(parse(origins[CompletionOrigin][r].schema).tokens, RequestPath)
        => FirstTokenOnly(origins[CompletionOrigin][r],
                          AnswerWith(<<origins[CompletionOrigin][r]>>))

(***************************************************************************)
(* The follow-up command of an item (C13).                                 *)
(***************************************************************************)
\* the items a schema produces on the request, as the call on that schema
\* alone collects them
Produced(registry) == AnswerWith(<<registry>>).locals.completions

\* the name k.name of the parameter an item was produced for, read from the
\* item's detail "(name)"
ParameterOf(item) == StrName(SubSeq(item.detail.v, 2, Len(item.detail.v) - 1))

\* the name of the schema's last token
LastTokenName(registry) ==
  LET tokens == parse(registry.schema).tokens IN tokens[Len(tokens)].name

\* C13: an item produced from a Key{k} classification carries the deno.cache
\* command, with the item specifier as its sole argument, if and only if
\* k.name is the name of the schema's last token and specifier_exists is false
\* of the item specifier.
C13_CommandIffLastKeyAndMissing ==
  FromRegistries =>
    \A r \in 1..Len(origins[CompletionOrigin]) :
      LET registry == origins[CompletionOrigin][r]
          items == Produced(registry)
      IN \A k \in DOMAIN items :
           items[k].detail.some =>
             /\ items[k].command.some <=>
                  (/\ ParameterOf(items[k]) = LastTokenName(registry)
                   /\ items[k].new_text \notin request.exists)
             /\ items[k].command.some => items[k].command.v = items[k].new_text

\* a prefix matched, the cursor is in the value of the last parameter, and of
\* the two items produced one exists and the other carries the command
C13_Witness ==
  /\ FromRegistries
  /\ response.result.kind = "list"
  /\ response.result.locals.did_match
  /\ \E k1, k2 \in DOMAIN response.result.items :
       /\ response.result.items[k1].detail.some
       /\ response.result.items[k1].command.some
       /\ response.result.items[k2].detail.some
       /\ ~response.result.items[k2].command.some
       /\ response.result.items[k2].kind = "FILE"

(***************************************************************************)
(* The isIncomplete flag of the returned list (C14).                       *)
(***************************************************************************)
\* a list was returned from the registries of the origin
ListReturned == FromRegistries /\ response.result.kind = "list"

\* a response to a variable-items fetch was consumed during the request
ResponseConsumed == response.result.locals.fetches # <<>> /\ request.server.ok

PositionAtEndpoint(item) ==
  CHOOSE n \in 1..9 : item.sort_text = sort_text_of(n)

\* C15: within one request the items of the returned list appear in the order
\* in which the variable-items endpoint returned them (said of the requests
\* that consumed one response, and of the items made from it).
C15_Original_EndpointOrder ==
  (ListReturned /\ Len(response.result.locals.fetches) = 1) =>
    \A i, j \in 1..Len(response.list) :
      (i < j /\ response.list[i].detail.some /\ response.list[j].detail.some)
        => PositionAtEndpoint(response.list[i]) < PositionAtEndpoint(response.list[j])

(***************************************************************************)
(* Origin completions (C16).                                               *)
(***************************************************************************)
\* the string form of an origin with a trailing "/" removed
Trimmed(origin) ==
  IF origin # <<>> /\ origin[Len(origin)] = "/" THEN SubSeq(origin, 1, Len(origin) - 1)
  ELSE origin

\* the known origins that begin with the request's text
Qualifying ==
  {o \in DOMAIN origins : starts_with(Trimmed(o), request.current_specifier)}

\* the request is not past an origin: its text is no absolute URL, or its
\* offset is smaller than the length of its origin
NotPastOrigin ==
  \/ ~Url_parse(request.current_specifier).ok
  \/ request.offset < Len(base_url(Url_parse(request.current_specifier)))

\* C16: get_origin_completions returns exactly one item per known origin whose
\* string form, a trailing "/" removed, begins with the partial text, each of
\* FOLDER kind, detail "(registry)", sort key "2" and a text edit writing that
\* origin; it returns none exactly when no known origin qualifies; and
\* get_completions returns this result when the offset is smaller than the
\* origin's length or the text is no absolute URL.
C16_OriginCompletions ==
  response.done =>
    /\ NotPastOrigin => response.result.source = "origins"
    /\ response.result.source = "origins" =>
         /\ response.result.kind = "none" <=> Qualifying = {}
         /\ response.result.kind # "none" =>
              /\ response.result.kind = "list"
              /\ ~response.result.is_incomplete
              /\ Len(response.list) = Cardinality(Qualifying)
              /\ \A o \in Qualifying :
                   \E i \in 1..Len(response.list) :
                     /\ response.list[i].new_text = Trimmed(o)
                     /\ response.list[i].label = Trimmed(o)
                     /\ response.list[i].kind = "FOLDER"
                     /\ response.list[i].detail = Some(<<"(", "r", "e", "g", "i", "s", "t", "r", "y", ")">>)
                     /\ response.list[i].sort_text = <<"2">>

\* three origins are known, two of them begin with the text, two items returned
C16_Witness ==
  /\ response.done
  /\ request.current_specifier = CompletionOrigin
  /\ request.offset = 1
  /\ Cardinality(DOMAIN origins) = 3
  /\ Len(response.list) = 2

(***************************************************************************)
(* The fetches of a request (C17).                                         *)
(***************************************************************************)
\* the documentation URLs of the items a request collected
DocumentationUrls ==
  {response.result.locals.completions[k].data.v :
     k \in {j \in DOMAIN response.result.locals.completions :
              response.result.locals.completions[j].data.some}}

\* C17: a get_completions request performs at most one variable-items fetch
\* per schema of the origin (the fetch after a matched prefix and the fetch of
\* the first-token fallback both counted), and fetches no documentation URL.
C17_AtMostOneFetchPerSchema ==
  FromRegistries =>
    /\ Len(response.result.locals.fetches) <= Len(origins[CompletionOrigin])
    /\ \A r \in 1..Len(origins[CompletionOrigin]) :
         Len(AnswerWith(<<origins[CompletionOrigin][r]>>).locals.fetches) <= 1
    /\ \A i \in 1..Len(response.result.locals.fetches) :
         response.result.locals.fetches[i] \notin DocumentationUrls

\* two schemas, each fetched its variable items once, and an item carries a
\* documentation URL
C17_Witness ==
  /\ FromRegistries
  /\ Len(origins[CompletionOrigin]) = 2
  /\ Len(response.result.locals.fetches) = 2
  /\ DocumentationUrls # {}

(***************************************************************************)
(* The descending loop over the prefixes of a schema (C19).                *)
(***************************************************************************)
\* the lengths i of the prefixes tokens[0..i] of the r-th schema that the
\* request tried, in the order of the trials
Tried(r) ==
  LET of_r == SelectSeq(response.result.locals.attempts, LAMBDA a : a[1] = r)
  IN [k \in 1..Len(of_r) |-> of_r[k][2]]

\* the prefix of length i of the r-th schema matches the request's path
PrefixMatches(r, i) ==
  matches(SubSeq(parse(origins[CompletionOrigin][r].schema).tokens, 1, i), RequestPath).some

\* the locals of get_completions on the request, as on_match reads them
RequestContext ==
  LET specifier == Url_parse(request.current_specifier)
  IN [specifier |-> specifier, origin |-> base_url(specifier), path |-> RequestPath,
      path_offset |-> request.offset - Len(base_url(specifier)),
      current_specifier |-> request.current_specifier, offset |-> request.offset,
      server |-> request.server, exists |-> request.exists]

\* the r-th schema alone gives what the classification with the match result
\* of its prefix of length i gives
ClassifiedWith(r, i) ==
  LET registry == origins[CompletionOrigin][r]
      tokens == parse(registry.schema).tokens
      alone == AnswerWith(<<registry>>).locals
      classified == on_match(NoLocals, RequestContext, registry, tokens,
                             matches(SubSeq(tokens, 1, i), RequestPath).v)
  IN /\ alone.did_match
     /\ alone.completions = classified.completions
     /\ alone.fetches = classified.fetches
     /\ alone.status = classified.status

EnableCall_inserting(origin) ==
  LET origin_url == Url_parse(origin)
      o1 == base_url(origin_url)
      suspends == /\ origin_url.ok
                  /\ o1 \notin DOMAIN origins
                  /\ Url_join(origin_url, CONFIG_PATH).ok
  IN /\ request.fn = "none"
     /\ IF suspends
        THEN /\ request' = [fn |-> "enable", origin |-> origin]
             /\ origins' = [o \in DOMAIN origins \cup {o1} |->
                              IF o = o1 THEN <<>> ELSE origins[o]]
             /\ UNCHANGED <<http_cache, last, tick, enabled, response>>
        ELSE Enable(origin, CHOOSE net \in NetOutcomes : TRUE, TRUE)

\* Rust: enable up to the await (lines 511-517): a call that fails to parse
\* or join, or whose origin is known, returns at once; any other is suspended
\* in the fetch with the registry untouched
EnableCall(origin) ==
  LET origin_url == Url_parse(origin)
      suspends == /\ origin_url.ok
                  /\ base_url(origin_url) \notin DOMAIN origins
                  /\ Url_join(origin_url, CONFIG_PATH).ok
  IN /\ request.fn = "none"
     /\ IF suspends
        THEN /\ request' = [fn |-> "enable", origin |-> origin]
             /\ UNCHANGED <<mgr_vars, response>>
        ELSE Enable(origin, CHOOSE net \in NetOutcomes : TRUE, TRUE)

\* Rust: the suspended enable is resumed with the outcome of the round-trip
\* (lines 491-505), and inserts when fetch_config returned Ok (line 518)
EnableResume(net) ==
  LET returned(r) ==
        /\ origins' = r.origins
        /\ http_cache' = r.cache
        /\ last' = Call("enable", request.origin, r)
        /\ tick' = 1 - tick
        /\ enabled' = IF r.result = "Ok"
                      THEN enabled \cup {base_url(Url_parse(request.origin))}
                      ELSE enabled
        /\ request' = [fn |-> "none"]
        /\ UNCHANGED response
  IN /\ request.fn = "enable"
     /\ returned(enable(origins, http_cache, request.origin, net, net.set_ok))

\* the caller drops the suspended future: nothing after the await runs
EnableDrop ==
  /\ request.fn = "enable"
  /\ request' = [fn |-> "none"]
  /\ last' = Call("enable", request.origin, Untouched("Dropped", origins, http_cache))
  /\ tick' = 1 - tick
  /\ UNCHANGED <<origins, http_cache, enabled, response>>

NextAsync ==
  \/ \E origin \in OriginInputs : EnableCall(origin)
  \/ \E net \in NetOutcomes : EnableResume(net)
  \/ EnableDrop
  \/ request.fn = "none" /\ \E origin \in OriginInputs : Disable(origin)
  \/ \E url \in DOMAIN http_cache : Evict(url)

SpecAsync == Init /\ [][NextAsync]_vars

\* the step returns from an enable that had been suspended in its fetch
Resumed == request.fn = "enable" /\ request'.fn = "none" /\ last'.result # "Dropped"

\* the step drops an enable that had been suspended in its fetch
Dropped == request.fn = "enable" /\ request'.fn = "none" /\ last'.result = "Dropped"

\* the step adds exactly the origin o to the map, with the whole list of the
\* configuration that this step fetched, decoded and validated
InsertsFetched(o) ==
  LET d == from_str(last'.source)
  IN /\ o \notin DOMAIN origins
     /\ DOMAIN origins' = DOMAIN origins \cup {o}
     /\ \A other \in DOMAIN origins : origins'[other] = origins[other]
     /\ last'.fetch_ok /\ d.ok /\ validate_config(d.config)
     /\ origins'[o] = d.config.registries

\* C18: enable changes the origin map in one step only, the insert made when
\* the suspended call is resumed with a configuration that was fetched,
\* decoded and validated; until then, and when the call is dropped at the
\* await, the map is as it was before the call, so what can be read is the
\* map without the origin or the map with its whole list
C18_EnableInsertsOnceAfterValidation ==
  /\ [](request.fn = "enable" =>
          base_url(Url_parse(request.origin)) \notin DOMAIN origins)
  /\ [](\A o \in DOMAIN origins :
          \E b \in ServerBodies : /\ from_str(b).ok
                                  /\ validate_config(b.config)
                                  /\ origins[o] = b.config.registries)
  /\ [][/\ Dropped => origins' = origins
        /\ (request'.fn = "enable") => origins' = origins
        /\ (Resumed /\ last'.result # "Ok") => origins' = origins
        /\ (Resumed /\ last'.result = "Ok")
             => InsertsFetched(base_url(Url_parse(request.origin)))
        /\ (last'.op = "enable" /\ ~Resumed) => origins' = origins]_vars

\* an enable was dropped in its fetch, with the map holding another origin
C18_Witness ==
  /\ last.op = "enable"
  /\ last.result = "Dropped"
  /\ request.fn = "none"
  /\ origins # EmptyMap
  /\ base_url(Url_parse(last.origin)) \notin DOMAIN origins


(***************************************************************************)
(* The cursor classifier against the regions of the token sequence.        *)
(***************************************************************************)
\* a region of the rendered text: its width, what the classifier returns in
\* it, and whether its right boundary is excluded (<) or included (<=)
Region(width, returns, strict) == [width |-> width, returns |-> returns, strict |-> strict]

\* the regions of the token at `index`: a literal (<); for a parameter its
\* prefix (<), the rendered value of its name in the match result (<=, empty
\* if absent, no region for a parameter without a name) and its suffix (<=)
RegionsOf(tokens, index, match_result) ==
  LET tk == tokens[index]
      v == match_result_get(match_result, tk.name.s)
      value == IF v.some THEN sov_to_string(v.v, Some(tk)) ELSE <<>>
  IN IF tk.kind = "String"
     THEN <<Region(Len(tk.text), CompletorType("Literal", tk.text, TokString(<<>>), None, 0, FALSE), TRUE)>>
     ELSE (IF tk.prefix.some
           THEN <<Region(Len(tk.prefix.v), CompletorType("Key", <<>>, tk, tk.prefix, index, FALSE), TRUE)>>
           ELSE <<>>)
          \o (IF tk.name.str
              THEN <<Region(Len(value), CompletorType("Key", <<>>, tk, None, index, FALSE), FALSE)>>
              ELSE <<>>)
          \o (IF tk.suffix.some
              THEN <<Region(Len(tk.suffix.v), CompletorType("Literal", tk.suffix.v, TokString(<<>>), None, 0, FALSE), FALSE)>>
              ELSE <<>>)

\* the regions of the tokens from `index` on, left to right
RECURSIVE RegionsFrom(_, _, _)
RegionsFrom(tokens, index, match_result) ==
  IF index > Len(tokens) THEN <<>>
  ELSE RegionsOf(tokens, index, match_result) \o RegionsFrom(tokens, index + 1, match_result)

\* the running length after the first r regions
RECURSIVE LengthAfter(_, _)
LengthAfter(regions, r) ==
  IF r = 0 THEN 0 ELSE LengthAfter(regions, r - 1) + regions[r].width

\* the region r satisfies its test at the offset
Satisfied(regions, r, offset) ==
  IF regions[r].strict THEN offset < LengthAfter(regions, r)
  ELSE offset <= LengthAfter(regions, r)

\* what the first satisfied region returns; none if no region is satisfied
FirstSatisfied(regions, offset) ==
  LET satisfied == {r \in 1..Len(regions) : Satisfied(regions, r, offset)}
  IN IF satisfied = {} THEN CompletorType("None", <<>>, TokString(<<>>), None, 0, FALSE)
     ELSE regions[CHOOSE r \in satisfied : \A s \in satisfied : r <= s].returns

\* C20: get_completor_type returns what the first region, left to right, whose
\* test holds at the offset returns: literals and prefixes exclude their right
\* boundary, values and suffixes include it; none when no region's test holds
C20_FirstSatisfiedRegionWins ==
  (response.done /\ request.fn = "get_completor_type")
    => [response.type EXCEPT !.early = FALSE]
         = FirstSatisfied(RegionsFrom(request.tokens, 1, request.match_result),
                          request.offset)

\* the cursor is exactly at the end of the value of the second token, a
\* parameter with a prefix, after a literal: the parameter is returned
C20_Witness ==
  /\ response.done
  /\ request.fn = "get_completor_type"
  /\ Len(request.tokens) = 3
  /\ request.tokens[1].kind = "String"
  /\ request.tokens[2].prefix.some
  /\ request.offset = 5
  /\ match_result_get(request.match_result, NameA) = Some(SovString(<<"x", "y">>))
  /\ response.type.kind = "Key"
  /\ response.type.prefix = None
  /\ response.type.index = 2


(***************************************************************************)
(* The running length of the cursor classifier at the start of a token.    *)
(***************************************************************************)
\* the regions of the tokens before the token at `index`
RegionsBefore(index) ==
  RegionsFrom(SubSeq(request.tokens, 1, index - 1), 1, request.match_result)

\* the walk reaches the token at `index`: no region of an earlier token is
\* satisfied at the offset
Processed(index) ==
  \A r \in 1..Len(RegionsBefore(index)) :
    ~Satisfied(RegionsBefore(index), r, request.offset)

\* C23: whenever get_completor_type starts on a token the offset is at least
\* the running length, so the `return None` of a parameter is never taken,
\* and none is returned only when the walk has passed every token
C23_OffsetNeverBehindRunningLength ==
  (response.done /\ request.fn = "get_completor_type")
    => /\ \A index \in 1..Len(request.tokens) :
            Processed(index)
              => request.offset >= LengthAfter(RegionsBefore(index),
                                               Len(RegionsBefore(index)))
       /\ ~response.type.early
       /\ response.type.kind = "None" => Processed(Len(request.tokens) + 1)

\* the cursor is exactly at the start of a parameter without a prefix that
\* follows a literal, where the running length equals the offset
C23_Witness ==
  /\ response.done
  /\ request.fn = "get_completor_type"
  /\ Len(request.tokens) = 2
  /\ request.tokens[1].kind = "String"
  /\ request.tokens[2].kind = "Key"
  /\ ~request.tokens[2].prefix.some
  /\ Processed(2)
  /\ request.offset = Len(request.tokens[1].text)


(***************************************************************************)
(* The item of a literal (C21).                                            *)
(***************************************************************************)
\* the literal that the classification of the r-th schema returned, if its
\* loop ended with a match whose classification is a literal
LiteralAt(r) ==
  LET tokens == parse(origins[CompletionOrigin][r].schema).tokens
      tried == Tried(r)
      m == matches(SubSeq(tokens, 1, tried[Len(tried)]), RequestPath)
      ct == get_completor_type(RequestContext.path_offset, tokens, m.v)
  IN IF tried # <<>> /\ m.some /\ ct.kind = "Literal" THEN Some(ct.s) ELSE None

\* the request was not abandoned at a schema or a prefix without a matcher or
\* at an item that does not join
NotAbandoned ==
  FromRegistries /\ response.result.locals.status \in {"run", "panic"}

\* C21: on a Literal(s) classification the item of s has label s, FOLDER
\* kind, sortText "1", and filterText and newText equal to the first offset
\* scalar values of currentSpecifier, then s, then the rest; building it does
\* not fail
C21_Original_LiteralSplicedAtScalarOffset ==
  NotAbandoned =>
    \A r \in 1..Len(origins[CompletionOrigin]) :
      LiteralAt(r).some =>
        /\ response.result.kind = "list"
        /\ LiteralAt(r).v \in DOMAIN response.result.items
        /\ response.result.items[LiteralAt(r).v] =
             CompletionItem(LiteralAt(r).v, "FOLDER", None, <<"1">>,
                            Some(Take(request.current_specifier, request.offset)
                                   \o LiteralAt(r).v
                                   \o Drop(request.current_specifier, request.offset)),
                            Take(request.current_specifier, request.offset)
                              \o LiteralAt(r).v
                              \o Drop(request.current_specifier, request.offset),
                            None, None, None)


(***************************************************************************)
(* The map of the completions (C22).                                       *)
(***************************************************************************)
\* the schemas of the origin that, each alone, produce an item for the key
Writers(key) ==
  {r \in 1..Len(origins[CompletionOrigin]) :
     key \in DOMAIN Produced(origins[CompletionOrigin][r])}

\* the last schema, in the order of the configuration, that writes the key
LastWriter(key) == CHOOSE r \in Writers(key) : \A q \in Writers(key) : q <= r

\* the positions of the key in the items the server answered with
Positions(key) == {idx \in 1..Len(request.server.items) : request.server.items[idx] = key}

\* C22: the list holds one item for each key of the map and nothing else;
\* the item of a key is the one its last writing schema produces, and when a
\* schema writes a key for several items of an answer, the one of the last
\* of them
C22_OneItemPerKeyLaterWriteWins ==
  (FromRegistries /\ response.result.kind = "list") =>
    /\ Len(response.list) = Cardinality(DOMAIN response.result.items)
    /\ \A k \in DOMAIN response.result.items :
         \E n \in 1..Len(response.list) : response.list[n] = response.result.items[k]
    /\ DOMAIN response.result.items =
         UNION {DOMAIN Produced(origins[CompletionOrigin][r]) :
                  r \in 1..Len(origins[CompletionOrigin])}
    /\ \A k \in DOMAIN response.result.items :
         /\ response.result.items[k] = Produced(origins[CompletionOrigin][LastWriter(k)])[k]
         /\ response.result.items[k].detail.some =>
              /\ Positions(k) # {}
              /\ response.result.items[k].sort_text =
                   sort_text_of(CHOOSE idx \in Positions(k) :
                                  \A other \in Positions(k) : other <= idx)

\* two schemas wrote the key "b", the second for the second of two equal
\* items of the answer, and the item returned is that one
C22_Witness ==
  /\ FromRegistries
  /\ response.result.kind = "list"
  /\ Cardinality(Writers(<<"b">>)) = 2
  /\ Cardinality(Positions(<<"b">>)) = 2
  /\ Produced(origins[CompletionOrigin][1])[<<"b">>]
       # Produced(origins[CompletionOrigin][2])[<<"b">>]
  /\ response.result.items[<<"b">>].sort_text = sort_text_of(2)


(***************************************************************************)
(* Where the configurations of the origin map come from (C24).             *)
(***************************************************************************)
\* the step is an enable that stores a configuration list for its origin
Stores == last'.op = "enable" /\ origins' # origins

\* C24: a configuration list enters the origin map only in an enable step
\* that read a body from the configuration URL of the origin, decoded it and
\* had it accepted by validate_config, and the list stored is the one that
\* was decoded; every list in the map is one that validate_config accepts
C24_StoredConfigurationsAreValidated ==
  /\ [](\A o \in DOMAIN origins :
          \E version \in 1..2 : validate_config(ConfigJson(version, origins[o])))
  /\ [][/\ (\E o \in DOMAIN origins' :
              o \notin DOMAIN origins \/ origins'[o] # origins[o]) => Stores
        /\ Stores =>
             /\ DOMAIN origins' = DOMAIN origins \cup {base_url(Url_parse(last'.origin))}
             /\ last'.fetched /\ last'.fetch_ok
             /\ ConfigUrl(last'.origin) =
                  base_url(Url_parse(last'.origin)) \o CONFIG_PATH
             /\ ConfigUrl(last'.origin) \in DOMAIN http_cache'
             /\ http_cache'[ConfigUrl(last'.origin)].body = last'.source
             /\ from_str(last'.source).ok
             /\ validate_config(from_str(last'.source).config)
             /\ origins'[base_url(Url_parse(last'.origin))]
                  = from_str(last'.source).config.registries]_vars

\* an enable stored the version-2 configuration that the server answered
\* with, the body is in the cache under the configuration URL of the origin,
\* and the map holds a second origin
C24_Witness ==
  /\ last.op = "enable"
  /\ last.result = "Ok"
  /\ last.fetched
  /\ last.round_trip
  /\ from_str(last.source).config.version = 2
  /\ ConfigUrl(last.origin) \in DOMAIN http_cache
  /\ LastOrigin \in DOMAIN origins
  /\ origins[LastOrigin] = from_str(last.source).config.registries
  /\ Cardinality(DOMAIN origins) = 2


(***************************************************************************)
(* The bounds of the descending prefix loop (C25).                         *)
(***************************************************************************)
\* no item of a literal was being built, so a panic of the request is one of
\* the loop
NoLiteral == \A r \in 1..Len(origins[CompletionOrigin]) : ~LiteralAt(r).some

\* C25: for a configuration that validate_config accepts, with N the number
\* of tokens of a schema, the loop makes at most max(N, 1) match attempts, at
\* prefix lengths within 0..N, and no subtraction or slice of it fails
C25_Original_LoopWithinBounds ==
  (FromRegistries /\ NoLiteral) =>
    /\ response.result.locals.status # "panic"
    /\ \A r \in 1..Len(origins[CompletionOrigin]) :
         LET N == Len(parse(origins[CompletionOrigin][r].schema).tokens)
         IN /\ Len(Tried(r)) <= (IF N > 1 THEN N ELSE 1)
            /\ \A k \in 1..Len(Tried(r)) : Tried(r)[k] \in 0..N

====
